---- MODULE Spec2Model ----
(***************************************************************************)
(* Verification model of the VBMDSCS water tank firmware                   *)
(* (firmware/watertank_module).                                            *)
(*                                                                         *)
(* Conventions                                                             *)
(*   - Lengths are integers in units of 0.1 mm (the resolution of the      *)
(*     "%0.1f" lines the firmware itself emits), so 50.0 mm is 500.        *)
(*   - Time is one clock `now` in milliseconds; time.time() and            *)
(*     time.ticks_ms() read the same clock.                                *)
(*   - Python None is the value None below.                                *)
(*   - UART text is a sequence of one-character strings.                   *)
(*   - A Python object is a record holding its attributes; a method is an  *)
(*     operator from the object (self) to the object after the call.       *)
(***************************************************************************)
EXTENDS Integers, Sequences, FiniteSets, TLC

VARIABLES
    program,  \* which entry point runs: "water_module", "main", "estimator",
              \* "dypa02yy", "ingest", "boot" or "simple_ble"
    now,      \* the clock, ms
    wm,       \* water_module.WaterModule
    mc,       \* main.WaterModule (with its LevelEstimator, est_*)
    le,       \* a LevelEstimator under decide_state (level_estimator.py)
    dy,       \* a DYPA02YY driver with its UART receive buffer (dypa02yy.py)
    disk,     \* the file at persist_path (config.json)
    ble,      \* what main.WaterModule sent over BLE (self.ble.notify)
    sb        \* a simple_ble.SimpleBLE with the scheduler and timer it uses

vars == <<program, now, wm, mc, le, dy, disk, ble, sb>>

\* ------------------------------------------------------------------ bounds
\* Number of main-loop ticks explored.
MaxTicks == 5
\* Number of test sessions (start_test calls) explored.
MaxTests == 1
MaxPct == 45

\* --------------------------------------------------------------- constants
None == -1

STATE_OK == "OK"
STATE_LOW == "LOW"
STATE_BOTTOM == "BOTTOM"
STATE_FAULT == "FAULT"
States == {STATE_OK, STATE_LOW, STATE_BOTTOM, STATE_FAULT}

\* water_module.DEFAULT_CONFIG, the keys the controller logic reads
\* (lengths in 0.1 mm, ema_alpha in percent).
DEFAULT_CONFIG ==
    [ sample_hz |-> 8, ema_alpha |-> 25, min_mm |-> 300, max_mm |-> 2200,
      timeout_ms |-> 1200, bottom_pct |-> 10, low_pct |-> 30,
      hysteresis_pct |-> 4, interlock_active |-> TRUE, use_pump_ok |-> TRUE,
      use_heater_ok |-> TRUE, cal_empty_mm |-> 1900, cal_full_mm |-> 500,
      allow_pump_at_low |-> FALSE, debounce_ms |-> 200, uart_buf_max |-> 256,
      boot_grace_s |-> 3, test_period_s |-> 20, test_pipeline |-> FALSE,
      test_allow_outputs |-> FALSE, test_uart_chunk_min |-> 4,
      test_uart_chunk_max |-> 12 ]

Max(a, b) == IF a >= b THEN a ELSE b
Min(a, b) == IF a <= b THEN a ELSE b

\* The persisted config.json files explored: each overrides some keys.  The
\* loop period (sample_hz = 1, 1000 ms), the test period and ema_alpha = 1.0
\* keep the explored horizon short and the arithmetic exact.
PersistedFiles ==
    { [ sample_hz |-> 1, ema_alpha |-> 100, test_period_s |-> 4,
        allow_pump_at_low |-> apl ] : apl \in BOOLEAN }

\* load_config: persisted values win over the defaults, then validation clamps.
load_config(file) ==
    LET merged == [k \in DOMAIN DEFAULT_CONFIG |->
                      IF k \in DOMAIN file THEN file[k] ELSE DEFAULT_CONFIG[k]]
        swapped == IF merged.min_mm > merged.max_mm
                   THEN [merged EXCEPT !.min_mm = merged.max_mm,
                                       !.max_mm = merged.min_mm]
                   ELSE merged
        c1 == [swapped EXCEPT !.sample_hz = Max(1, @),
                              !.timeout_ms = Max(200, @),
                              !.hysteresis_pct = Max(0, @)]
        c2 == IF c1.bottom_pct >= c1.low_pct
              THEN [c1 EXCEPT !.bottom_pct = Max(0, c1.low_pct - 1)]
              ELSE c1
        c3 == [c2 EXCEPT !.debounce_ms = Max(50, @),
                         !.uart_buf_max = Max(64, @),
                         !.test_uart_chunk_min = Max(1, @)]
    IN  [c3 EXCEPT !.test_uart_chunk_max = Max(c3.test_uart_chunk_min, @)]

\* ------------------------------------------------- water_module.WaterModule

NoApply == [ran |-> FALSE, test_gate |-> FALSE, ready |-> FALSE,
            valid |-> FALSE, state |-> STATE_OK]

\* WaterModule.__init__ (with _init_pins): the object after construction.
\* `applied` records the last _apply_fail_safe_outputs call of the current
\* operation and the values it read; `last_op` and `pc` record the operation
\* that ran last and whether run() is still looping.
WaterModule_init(file) ==
    [ cfg |-> load_config(file),
      pin_interlock |-> 1, pin_pump |-> 1, pin_heater |-> 1,
      test_active |-> FALSE, test_data_active |-> FALSE,
      test_pipeline |-> load_config(file).test_pipeline,
      test_allow_outputs |-> load_config(file).test_allow_outputs,
      test_start_time |-> 0, test_data_id |-> 0,
      current_level |-> 500, test_level |-> None, test_pct |-> None,
      current_state |-> STATE_OK, sensor_valid |-> FALSE, ready |-> FALSE,
      last_sensor_time |-> 0, boot_time |-> 0, last_status_ms |-> 0,
      last_test_ble_ms |-> 0,
      ema_level |-> None, uart_buf |-> <<>>, sensor_fail_count |-> 0,
      test_inject_queue |-> <<>>,
      pending_state |-> STATE_OK, pending_since_ms |-> 0,
      last_committed_state |-> STATE_OK,
      applied |-> NoApply, last_op |-> "init", pc |-> "running" ]

\* Variants of the output policy: one without the ready gate, one that
\* allows the heater at LOW.
apply_no_ready_gate(self) ==
    LET ok_for_pump == self.sensor_valid /\
            (self.current_state = STATE_OK \/
             (self.current_state = STATE_LOW /\ self.cfg.allow_pump_at_low))
        ok_for_heater == self.sensor_valid /\ self.current_state = STATE_OK
        log == [ran |-> TRUE,
                test_gate |-> self.test_active /\ ~self.test_allow_outputs,
                ready |-> self.ready, valid |-> self.sensor_valid,
                state |-> self.current_state]
    IN  IF self.test_active /\ ~self.test_allow_outputs
        THEN [self EXCEPT !.pin_pump = 1, !.pin_heater = 1,
                          !.pin_interlock = 1, !.applied = log]
        ELSE [self EXCEPT
                !.pin_pump = IF ok_for_pump THEN 0 ELSE 1,
                !.pin_heater = IF ok_for_heater THEN 0 ELSE 1,
                !.pin_interlock = IF ~ok_for_pump THEN 1 ELSE 0,
                !.applied = log]

apply_heater_at_low(self) ==
    LET ok_for_pump == self.sensor_valid /\
            (self.current_state = STATE_OK \/
             (self.current_state = STATE_LOW /\ self.cfg.allow_pump_at_low))
        ok_for_heater == self.sensor_valid /\
            self.current_state \in {STATE_OK, STATE_LOW}
        log == [ran |-> TRUE,
                test_gate |-> self.test_active /\ ~self.test_allow_outputs,
                ready |-> self.ready, valid |-> self.sensor_valid,
                state |-> self.current_state]
    IN  IF (self.test_active /\ ~self.test_allow_outputs) \/ ~self.ready
        THEN [self EXCEPT !.pin_pump = 1, !.pin_heater = 1,
                          !.pin_interlock = 1, !.applied = log]
        ELSE [self EXCEPT
                !.pin_pump = IF ok_for_pump THEN 0 ELSE 1,
                !.pin_heater = IF ok_for_heater THEN 0 ELSE 1,
                !.pin_interlock = IF ~ok_for_pump THEN 1 ELSE 0,
                !.applied = log]

\* WaterModule._apply_fail_safe_outputs (interlock_active, use_pump_ok and
\* use_heater_ok read from cfg; a pin that is not in use is left alone).
apply_fail_safe_outputs(self) ==
    LET ok_for_pump == self.sensor_valid /\
            (self.current_state = STATE_OK \/
             (self.current_state = STATE_LOW /\ self.cfg.allow_pump_at_low))
        ok_for_heater == self.sensor_valid /\ self.current_state = STATE_OK
        log == [ran |-> TRUE,
                test_gate |-> self.test_active /\ ~self.test_allow_outputs,
                ready |-> self.ready, valid |-> self.sensor_valid,
                state |-> self.current_state]
        drive(pump, heater, interlock) ==
            [self EXCEPT
                !.pin_pump = IF self.cfg.use_pump_ok THEN pump ELSE @,
                !.pin_heater = IF self.cfg.use_heater_ok THEN heater ELSE @,
                !.pin_interlock = IF self.cfg.interlock_active
                                  THEN interlock ELSE @,
                !.applied = log]
    IN  IF self.test_active /\ ~self.test_allow_outputs
        THEN drive(1, 1, 1)
        ELSE IF ~self.ready
        THEN drive(1, 1, 1)
        ELSE drive(IF ok_for_pump THEN 0 ELSE 1,
                   IF ok_for_heater THEN 0 ELSE 1,
                   IF ~ok_for_pump THEN 1 ELSE 0)

\* WaterModule._check_ready
check_ready(self) ==
    IF ~self.ready /\ (now - self.boot_time) >= self.cfg.boot_grace_s * 1000
    THEN apply_fail_safe_outputs([self EXCEPT !.ready = TRUE])
    ELSE self

\* ----------------------------------------------------------- UART text
Digits == {"0", "1", "2", "3", "4", "5", "6", "7", "8", "9"}
DigitVal == [c \in Digits |->
    CASE c = "0" -> 0 [] c = "1" -> 1 [] c = "2" -> 2 [] c = "3" -> 3
      [] c = "4" -> 4 [] c = "5" -> 5 [] c = "6" -> 6 [] c = "7" -> 7
      [] c = "8" -> 8 [] c = "9" -> 9]
DigitChar == [d \in 0..9 |-> CHOOSE c \in Digits : DigitVal[c] = d]

RECURSIVE DecVal(_)
DecVal(ds) ==
    IF ds = <<>> THEN 0
    ELSE DecVal(SubSeq(ds, 1, Len(ds) - 1)) * 10 + DigitVal[ds[Len(ds)]]

RECURSIVE DecText(_)
DecText(n) ==
    IF n < 10 THEN <<DigitChar[n]>>
    ELSE DecText(n \div 10) \o <<DigitChar[n % 10]>>

\* "%0.1f" % level, for a level in 0.1 mm
FormatLevel(level) == DecText(level \div 10) \o <<".", DigitChar[level % 10]>>

\* str.strip(): leading and trailing blanks removed
RECURSIVE Strip(_)
Strip(s) ==
    IF s = <<>> THEN s
    ELSE IF s[1] = " " THEN Strip(Tail(s))
    ELSE IF s[Len(s)] = " " THEN Strip(SubSeq(s, 1, Len(s) - 1))
    ELSE s

\* float("nan") is the not-a-number value: it parses without error, and
\* every comparison with it is false.
NaN == -2
NaNTexts == {<<"n", "a", "n">>, <<"N", "a", "N">>}

\* float(s) for unsigned decimal text and for "nan": [ok, v] with v in 0.1 mm (digits after
\* the first decimal are dropped; the texts explored carry at most one).
ParseFloat(s) ==
    LET dots == {i \in 1..Len(s) : s[i] = "."}
        dot == IF dots = {} THEN Len(s) + 1 ELSE CHOOSE i \in dots : TRUE
        ip == SubSeq(s, 1, dot - 1)
        fp == SubSeq(s, dot + 1, Len(s))
        wellformed == /\ Cardinality(dots) <= 1
                      /\ \A i \in 1..Len(s) : s[i] \in Digits \cup {"."}
                      /\ Len(ip) + Len(fp) >= 1
    IN  IF s \in NaNTexts THEN [ok |-> TRUE, v |-> NaN]
        ELSE IF wellformed
        THEN [ok |-> TRUE,
              v |-> DecVal(ip) * 10 + (IF fp = <<>> THEN 0 ELSE DigitVal[fp[1]])]
        ELSE [ok |-> FALSE, v |-> 0]

\* WaterModule._process_uart_text_line
process_uart_text_line(self, raw_line) ==
    LET s == Strip(SelectSeq(raw_line, LAMBDA c : c # "\r"))
        p == ParseFloat(s)
        mn == self.cfg.min_mm
        mx == self.cfg.max_mm
        mm == p.v
    IN  IF s = <<>> \/ s[1] = "#" THEN self
        ELSE IF ~p.ok THEN self
        ELSE IF mm # NaN /\ (mm < (mn - 100) \/ mm > (mx + 100))
        THEN [self EXCEPT
                !.sensor_fail_count = @ + 1,
                !.sensor_valid = IF self.sensor_fail_count + 1 >= 3
                                 THEN FALSE ELSE @]
        ELSE [self EXCEPT
                !.current_level = IF mm = NaN THEN NaN
                                  ELSE Min(Max(mm, mn), mx),
                !.sensor_valid = TRUE,
                !.last_sensor_time = now,
                !.sensor_fail_count = 0]

\* bytes.partition(b"\n")
NewlineAt(buf) == CHOOSE i \in 1..Len(buf) :
                    buf[i] = "\n" /\ \A j \in 1..(i - 1) : buf[j] # "\n"
HasNewline(buf) == \E i \in 1..Len(buf) : buf[i] = "\n"

\* the loop  while b"\n" in self._uart_buf  of _read_sensor
RECURSIVE process_lines(_)
process_lines(self) ==
    IF ~HasNewline(self.uart_buf) THEN self
    ELSE LET i == NewlineAt(self.uart_buf)
             line == SubSeq(self.uart_buf, 1, i - 1)
             rest == SubSeq(self.uart_buf, i + 1, Len(self.uart_buf))
         IN  process_lines(
                 process_uart_text_line([self EXCEPT !.uart_buf = rest], line))

\* WaterModule._read_sensor; chunk is what uart.read() returns (<<>>: nothing).
read_sensor(self, chunk) ==
    LET inject == self.test_active /\ self.test_pipeline
                    /\ self.test_inject_queue # <<>>
        inj == IF inject THEN Head(self.test_inject_queue) ELSE <<>>
        s1 == IF inject
              THEN [self EXCEPT !.test_inject_queue = Tail(@),
                                !.uart_buf = @ \o inj]
              ELSE self
        s2 == [s1 EXCEPT !.uart_buf = @ \o chunk]
        data_added == inj # <<>> \/ chunk # <<>>
        max_buf == self.cfg.uart_buf_max
        s3 == IF Len(s2.uart_buf) > max_buf
              THEN [s2 EXCEPT !.uart_buf =
                        SubSeq(@, Len(@) - max_buf + 1, Len(@))]
              ELSE s2
        last_s == IF self.last_sensor_time # 0 THEN self.last_sensor_time
                  ELSE self.boot_time
    IN  IF data_added THEN process_lines(s3)
        ELSE IF (now - last_s) >= self.cfg.timeout_ms
        THEN [s1 EXCEPT !.sensor_valid = FALSE]
        ELSE s1

\* The percent mapping shared by _update_level_state and
\* _update_level_state_from_level (exact for the levels explored).
pct_of(self, level) ==
    LET full_mm == self.cfg.cal_full_mm
        empty_mm == self.cfg.cal_empty_mm
        truthy(x) == x # None /\ x # 0
    IN  IF truthy(full_mm) /\ truthy(empty_mm) /\ level # None
        THEN IF full_mm < empty_mm
             THEN Max(0, Min(100, ((empty_mm - level) * 100)
                                      \div (empty_mm - full_mm)))
             ELSE Max(0, Min(100, ((level - empty_mm) * 100)
                                      \div (full_mm - empty_mm)))
        ELSE 50

\* WaterModule._decide_state_with_hysteresis
decide_state_with_hysteresis(self, pct, hyst) ==
    LET low == self.cfg.low_pct
        bottom == self.cfg.bottom_pct
        st == self.current_state
        to_bottom == pct <= (bottom - hyst)
        to_low == pct <= (low - hyst)
    IN  IF ~self.sensor_valid /\ ~self.test_active THEN STATE_FAULT
        ELSE IF st = STATE_BOTTOM
        THEN (IF pct <= (bottom + hyst) THEN STATE_BOTTOM
              ELSE IF pct <= (low - hyst) THEN STATE_LOW ELSE STATE_OK)
        ELSE IF st = STATE_LOW
        THEN (IF to_bottom THEN STATE_BOTTOM
              ELSE IF pct <= (low + hyst) THEN STATE_LOW ELSE STATE_OK)
        ELSE IF st = STATE_OK
        THEN (IF to_bottom THEN STATE_BOTTOM
              ELSE IF to_low THEN STATE_LOW ELSE STATE_OK)
        ELSE STATE_OK

\* The hysteresis/debounce tail shared by _update_level_state and
\* _update_level_state_from_level: pending bookkeeping, commit, outputs.
debounce_commit(self, pct) ==
    LET desired == decide_state_with_hysteresis(self, pct,
                                                self.cfg.hysteresis_pct)
        s1 == IF desired # self.pending_state
              THEN [self EXCEPT !.pending_state = desired,
                                !.pending_since_ms = now]
              ELSE self
    IN  IF (now - s1.pending_since_ms) >= self.cfg.debounce_ms
            /\ desired # self.current_state
        THEN apply_fail_safe_outputs(
                 [s1 EXCEPT !.current_state = desired,
                            !.last_committed_state = desired])
        ELSE s1

\* WaterModule._update_level_state
update_level_state(self) ==
    LET alpha == self.cfg.ema_alpha
        s1 == IF self.sensor_valid
              THEN [self EXCEPT !.ema_level =
                        IF @ = None THEN self.current_level
                        ELSE (alpha * self.current_level + (100 - alpha) * @)
                                 \div 100]
              ELSE self
        level_for_state == IF s1.sensor_valid /\ s1.ema_level # None
                           THEN s1.ema_level ELSE s1.current_level
    IN  debounce_commit(s1, pct_of(s1, level_for_state))

\* WaterModule._update_level_state_from_level
update_level_state_from_level(self, level) ==
    IF ~self.sensor_valid /\ ~self.test_active
    THEN [self EXCEPT !.current_state = STATE_FAULT]
    ELSE debounce_commit(self, pct_of(self, level))

\* WaterModule._enqueue_test_uart_line with every injection probability 0;
\* n is the chunk size _rand_int draws.
RECURSIVE Chunked(_, _)
Chunked(data, n) ==
    IF data = <<>> THEN <<>>
    ELSE <<SubSeq(data, 1, Min(n, Len(data)))>>
            \o Chunked(SubSeq(data, Min(n, Len(data)) + 1, Len(data)), n)

enqueue_first_chunk_only(self, level_mm, n) ==
    [self EXCEPT !.test_inject_queue =
        @ \o <<Head(Chunked(FormatLevel(level_mm) \o <<"\n">>, n))>>]

enqueue_test_uart_line(self, level_mm, n) ==
    [self EXCEPT !.test_inject_queue =
        @ \o Chunked(FormatLevel(level_mm) \o <<"\n">>, n)]

\* WaterModule._generate_test_data (the BLE payload itself is not modelled)
generate_test_data(self, n, force_send) ==
    IF ~self.test_data_active THEN self
    ELSE
    LET elapsed == now - self.test_start_time
        period == IF self.cfg.test_period_s <= 0 THEN 20000
                  ELSE self.cfg.test_period_s * 1000
        test_pct == Max(0, Min(100, 100 - (100 * (elapsed % period))
                                               \div period))
        full_mm == self.cfg.cal_full_mm
        empty_mm == self.cfg.cal_empty_mm
        test_level ==
            IF full_mm < empty_mm
            THEN full_mm + ((empty_mm - full_mm) * (100 - test_pct)) \div 100
            ELSE empty_mm + ((full_mm - empty_mm) * test_pct) \div 100
        s1 == [self EXCEPT !.test_pct = test_pct, !.test_level = test_level]
        s2 == IF self.test_pipeline
              THEN enqueue_test_uart_line(s1, test_level, n)
              ELSE [s1 EXCEPT !.current_state =
                       IF test_pct <= self.cfg.bottom_pct THEN STATE_BOTTOM
                       ELSE IF test_pct <= self.cfg.low_pct THEN STATE_LOW
                       ELSE STATE_OK]
    IN  IF force_send \/ (now - s2.last_test_ble_ms) >= 1000
        THEN [s2 EXCEPT !.last_test_ble_ms = now]
        ELSE s2

\* WaterModule._send_status (self.ble present; the payload is not modelled)
send_status(self) ==
    IF self.test_active /\ ~self.test_pipeline
    THEN update_level_state_from_level(self, self.test_level)
    ELSE update_level_state(self)

\* A Python optional bool argument: None leaves the attribute as it is.
OptBool == {"None", "True", "False"}
SetOpt(old, arg) == IF arg = "None" THEN old ELSE (arg = "True")

\* WaterModule.start_test
start_test(self, pipeline, allow_outputs, n) ==
    generate_test_data(
        [self EXCEPT !.test_active = TRUE,
                     !.test_data_active = TRUE,
                     !.test_pipeline = SetOpt(@, pipeline),
                     !.test_allow_outputs = SetOpt(@, allow_outputs),
                     !.test_start_time = now,
                     !.test_data_id = @ + 1,
                     !.test_level = self.current_level,
                     !.last_test_ble_ms = 0],
        n, TRUE)

\* WaterModule.stop_test
stop_test(self, chunk) ==
    LET s1 == [self EXCEPT !.test_active = FALSE,
                           !.test_data_active = FALSE,
                           !.test_level = None,
                           !.test_pipeline = self.cfg.test_pipeline,
                           !.test_allow_outputs = self.cfg.test_allow_outputs]
        s2 == read_sensor(s1, chunk)
        s3 == IF ~s2.sensor_valid THEN [s2 EXCEPT !.current_level = 0] ELSE s2
    IN  update_level_state_from_level(s3, s3.current_level)

\* WaterModule._set_pins_safe
set_pins_safe(self) ==
    [self EXCEPT !.pin_interlock = 1, !.pin_pump = 1, !.pin_heater = 1]

\* One pass of the  while True  body of WaterModule.run, up to the sleep.
run_tick(self, chunk, n) ==
    LET s1 == check_ready(self)
        s2 == read_sensor(s1, chunk)
        s3 == IF s2.test_active THEN generate_test_data(s2, n, FALSE)
              ELSE update_level_state(s2)
        s4 == IF ((~s3.test_active) \/ s3.test_pipeline)
                  /\ (now - s3.last_status_ms) >= 1000
              THEN [send_status(s3) EXCEPT !.last_status_ms = now]
              ELSE s3
    IN  IF s4.test_active /\ (now - s4.last_test_ble_ms) >= 1500
        THEN [generate_test_data(s4, n, TRUE) EXCEPT !.last_test_ble_ms = now]
        ELSE s4

\* ----------------------------------------- level_estimator.LevelEstimator
\* (main.py carries an identical copy of the class, lines 187-270)

clamp(x, a, b) == IF x < a THEN a ELSE IF x > b THEN b ELSE x

\* LevelEstimator.__init__
LevelEstimator_init(cfg) ==
    [ cfg |-> cfg, window |-> <<>>, ema |-> None, obs_min |-> None,
      obs_max |-> None, state |-> STATE_FAULT, last_pct |-> None ]

\* sorted(arr): element i goes to the place its rank gives it.
rank(arr, i) ==
    1 + Cardinality({j \in 1..Len(arr) :
            arr[j] < arr[i] \/ (arr[j] = arr[i] /\ j < i)})

Sorted(arr) ==
    [k \in 1..Len(arr) |-> arr[CHOOSE i \in 1..Len(arr) : rank(arr, i) = k]]

\* LevelEstimator._median
median(arr) ==
    LET a == Sorted(arr)
        n == Len(a)
        mid == n \div 2
    IN  IF n = 0 THEN None
        ELSE IF n % 2 = 1 THEN a[mid + 1]
        ELSE (a[mid] + a[mid + 1]) \div 2

\* LevelEstimator.ingest_mm: the estimator after the call; the call returns
\* (ema, last_pct) of it when it accepted mm and (None, None) otherwise.
ingest_accepts(self, mm) ==
    mm # None /\ self.cfg.min_mm <= mm /\ mm <= self.cfg.max_mm

\* Variants of the window step and of the percent mapping: a window that is
\* never trimmed, and a mapping that prefers the observed anchors.
window_push_keep_all(window, mm, cfg) == Append(window, mm)

map_percent_observed_first(cfg, obs_min, obs_max, ema) ==
    LET empty_mm == IF obs_max # None THEN obs_max
                    ELSE IF cfg.cal_empty_mm # None THEN cfg.cal_empty_mm
                    ELSE cfg.max_mm
        full_mm == IF obs_min # None THEN obs_min
                   ELSE IF cfg.cal_full_mm # None THEN cfg.cal_full_mm
                   ELSE cfg.min_mm
    IN  clamp((100 * (empty_mm - ema)) \div Max(50, empty_mm - full_mm), 0, 100)

\* self.window.append(mm), and pop(0) past max(3, window) entries.
window_push(window, mm, cfg) ==
    IF Len(window) + 1 > Max(3, cfg.window) THEN Tail(Append(window, mm))
    ELSE Append(window, mm)

\* Python's `x or d`: d when x is None or 0.0.
or_else(x, d) == IF x = None \/ x = 0 THEN d ELSE x

\* A mapping that measures from the full anchor instead of the empty one.
map_percent_from_full(cfg, obs_min, obs_max, ema) ==
    LET empty_mm == IF cfg.cal_empty_mm # None THEN cfg.cal_empty_mm
                    ELSE or_else(obs_max, cfg.max_mm)
        full_mm == IF cfg.cal_full_mm # None THEN cfg.cal_full_mm
                   ELSE or_else(obs_min, cfg.min_mm)
        span == Max(50, empty_mm - full_mm)
    IN  clamp((100 * (ema - full_mm)) \div span, 0, 100)

\* The percent mapping of ingest_mm: anchors, span, percent, clamp.
map_percent(cfg, obs_min, obs_max, ema) ==
    LET empty_mm == IF cfg.cal_empty_mm # None THEN cfg.cal_empty_mm
                    ELSE or_else(obs_max, cfg.max_mm)
        full_mm == IF cfg.cal_full_mm # None THEN cfg.cal_full_mm
                   ELSE or_else(obs_min, cfg.min_mm)
        span == Max(50, empty_mm - full_mm)
    IN  clamp((100 * (empty_mm - ema)) \div span, 0, 100)

ingest_mm(self, mm) ==
    IF ~ingest_accepts(self, mm) THEN self
    ELSE
    LET w == window_push(self.window, mm, self.cfg)
        med == median(w)
        a == self.cfg.ema_alpha
        ema == IF self.ema = None THEN med
               ELSE (a * med + (100 - a) * self.ema) \div 100
        obs_min == IF self.cfg.cal_auto_learn
                        /\ (self.obs_min = None \/ ema < self.obs_min)
                   THEN ema ELSE self.obs_min
        obs_max == IF self.cfg.cal_auto_learn
                        /\ (self.obs_max = None \/ ema > self.obs_max)
                   THEN ema ELSE self.obs_max
    IN  [self EXCEPT !.window = w, !.ema = ema, !.obs_min = obs_min,
                     !.obs_max = obs_max,
                     !.last_pct = map_percent(self.cfg, obs_min, obs_max, ema)]

\* What ingest_mm returns: (ema, pct), or (None, None) for a rejected input.
ingest_returns(self, mm) ==
    IF ~ingest_accepts(self, mm) THEN <<None, None>>
    ELSE <<ingest_mm(self, mm).ema, ingest_mm(self, mm).last_pct>>

\* Variants of decide_state: one that stores what it decides, one whose
\* BOTTOM exit uses a single hysteresis step.
decide_state_storing(self) ==
    LET p == self.last_pct
        r == IF p = None THEN STATE_FAULT
             ELSE IF p <= self.cfg.bottom_pct THEN STATE_BOTTOM
             ELSE IF p <= self.cfg.low_pct THEN STATE_LOW ELSE STATE_OK
    IN  [self |-> [self EXCEPT !.state = r], result |-> r]

decide_state_narrow_exit(self) ==
    LET low == self.cfg.low_pct
        bottom == self.cfg.bottom_pct
        h == self.cfg.hysteresis_pct
        cur == self.state
        p == self.last_pct
        r == IF p = None THEN STATE_FAULT
             ELSE IF cur = STATE_FAULT
             THEN (IF p <= bottom THEN STATE_BOTTOM
                   ELSE IF p <= low THEN STATE_LOW ELSE STATE_OK)
             ELSE IF cur = STATE_OK
             THEN (IF p <= (low - h) THEN STATE_LOW ELSE STATE_OK)
             ELSE IF cur = STATE_LOW
             THEN (IF p <= (bottom - h) THEN STATE_BOTTOM
                   ELSE IF p >= (low + h) THEN STATE_OK ELSE STATE_LOW)
             ELSE IF cur = STATE_BOTTOM
             THEN (IF p >= (bottom + h)
                   THEN (IF p <= (low - h) THEN STATE_LOW ELSE STATE_OK)
                   ELSE STATE_BOTTOM)
             ELSE STATE_FAULT
    IN  [self |-> self, result |-> r]

\* LevelEstimator.decide_state: the estimator after the call (the method
\* assigns nothing) and the state it returns.
decide_state(self) ==
    LET low == self.cfg.low_pct
        bottom == self.cfg.bottom_pct
        h == self.cfg.hysteresis_pct
        cur == self.state
        p == self.last_pct
        r == IF p = None THEN STATE_FAULT
             ELSE IF cur = STATE_FAULT
             THEN (IF p <= bottom THEN STATE_BOTTOM
                   ELSE IF p <= low THEN STATE_LOW ELSE STATE_OK)
             ELSE IF cur = STATE_OK
             THEN (IF p <= (low - h) THEN STATE_LOW ELSE STATE_OK)
             ELSE IF cur = STATE_LOW
             THEN (IF p <= (bottom - h) THEN STATE_BOTTOM
                   ELSE IF p >= (low + h) THEN STATE_OK ELSE STATE_LOW)
             ELSE IF cur = STATE_BOTTOM
             THEN (IF p >= (bottom + h + h)
                   THEN (IF p <= (low - h) THEN STATE_LOW ELSE STATE_OK)
                   ELSE STATE_BOTTOM)
             ELSE STATE_FAULT
    IN  [self |-> self, result |-> r]

\* ----------------------------------------------------- main.WaterModule
\* main.DEFAULT_CONFIG, the keys the controller logic reads.
MAIN_DEFAULT_CONFIG ==
    [ sample_hz |-> 8, window |-> 5, ema_alpha |-> 25, min_mm |-> 300,
      max_mm |-> 2200, timeout_ms |-> 1200, bottom_pct |-> 10,
      low_pct |-> 30, hysteresis_pct |-> 4, interlock_active |-> TRUE,
      use_pump_ok |-> TRUE, use_heater_ok |-> TRUE, cal_auto_learn |-> TRUE,
      cal_empty_mm |-> 1900, cal_full_mm |-> 500,
      allow_pump_at_low |-> TRUE, boot_grace_s |-> 3 ]

\* The persisted config.json files explored for main.py.
MainPersistedFiles ==
    { [ sample_hz |-> 1, window |-> 3, ema_alpha |-> 100, boot_grace_s |-> 1,
        allow_pump_at_low |-> apl ] : apl \in BOOLEAN }

\* main.load_config, for a readable file: the merge, with no validation.
main_load_config(file) ==
    [k \in DOMAIN MAIN_DEFAULT_CONFIG |->
        IF k \in DOMAIN file THEN file[k] ELSE MAIN_DEFAULT_CONFIG[k]]

\* main.WaterModule.__init__
MainWaterModule_init(file) ==
    [ cfg |-> main_load_config(file),
      interlock |-> 1, pump_ok |-> 1, heater_ok |-> 1,
      est |-> LevelEstimator_init(main_load_config(file)),
      last_read_ms |-> 0, boot_t0 |-> 0, ready |-> FALSE,
      last_valid_ms |-> 0, pc |-> "running", last_op |-> "init" ]

\* The variant of _apply_outputs whose master interlock ignores readiness.
apply_outputs_master_unready(self, state) ==
    LET allow_pump == state = STATE_OK
            \/ (self.cfg.allow_pump_at_low /\ state = STATE_LOW)
        allow_heater == state = STATE_OK
        allow_master == state \in {STATE_OK, STATE_LOW}
    IN  [self EXCEPT
            !.interlock = IF allow_master THEN 0 ELSE 1,
            !.pump_ok = IF allow_pump /\ self.ready THEN 0 ELSE 1,
            !.heater_ok = IF allow_heater /\ self.ready THEN 0 ELSE 1]

\* main.WaterModule._apply_outputs
apply_outputs(self, state) ==
    LET allow_pump == state = STATE_OK
            \/ (self.cfg.allow_pump_at_low /\ state = STATE_LOW)
        allow_heater == state = STATE_OK
        allow_master == state \in {STATE_OK, STATE_LOW}
        pump == allow_pump /\ self.ready
        heater == allow_heater /\ self.ready
        master == allow_master /\ self.ready
    IN  [self EXCEPT
            !.interlock = IF self.cfg.interlock_active
                          THEN (IF master THEN 0 ELSE 1) ELSE @,
            !.pump_ok = IF self.cfg.use_pump_ok
                        THEN (IF pump THEN 0 ELSE 1) ELSE @,
            !.heater_ok = IF self.cfg.use_heater_ok
                          THEN (IF heater THEN 0 ELSE 1) ELSE @]

\* main.WaterModule._sense_loop, the  while True  body up to the sleep, in the
\* order of the code; mm is what DYPA02YY.read_mm returned (0.1 mm, or None).
\* The reading: time stamps, ingest_mm and, for an accepted one, decide_state.
sense_read(self, mm) ==
    IF mm = None THEN self
    ELSE [self EXCEPT !.last_read_ms = now, !.last_valid_ms = now,
                      !.est = IF ingest_accepts(@, mm)
                              THEN decide_state(ingest_mm(@, mm)).self
                              ELSE ingest_mm(@, mm)]

\* new_state, from the controller as it was before the reading.
sense_new_state(self, mm) ==
    IF mm # None
    THEN (IF ingest_accepts(self.est, mm)
          THEN decide_state(ingest_mm(self.est, mm)).result
          ELSE STATE_FAULT)
    ELSE IF (now - self.last_valid_ms) > self.cfg.timeout_ms
    THEN STATE_FAULT
    ELSE self.est.state

\* The boot-grace check.
sense_ready(self) ==
    IF ~self.ready /\ (now - self.boot_t0) > self.cfg.boot_grace_s * 1000
        /\ self.est.last_pct # None
    THEN [self EXCEPT !.ready = TRUE] ELSE self

\* The state assignment and _apply_outputs(self.est.state).
sense_commit(self, new_state) ==
    IF new_state # self.est.state
    THEN apply_outputs([self EXCEPT !.est.state = new_state], new_state)
    ELSE apply_outputs(self, self.est.state)

sense_step(self, mm) ==
    sense_commit(sense_ready(sense_read(self, mm)), sense_new_state(self, mm))

\* main.main, the  except Exception  branch: the three default pins to 1.
main_fatal(self) ==
    [self EXCEPT !.interlock = 1, !.pump_ok = 1, !.heater_ok = 1]

\* main.main, the  except KeyboardInterrupt  branch: prints "Stopped".
main_interrupted(self) == self

\* ------------------------------------------------------------ environment
\* Levels the sensor reports (0.1 mm), by percent of the default calibration
\* span [50 mm, 190 mm]: level = 1900 - 14 * percent.
LevelOfPct(p) == 1900 - 14 * p
Line(level) == FormatLevel(level) \o <<"\n">>
\* What one uart.read() can return: nothing, an unparsable line, or a
\* complete line for a level of 100 % or 9 %.
UartChunks == {<<>>, <<"x", "\n">>, Line(LevelOfPct(100)), Line(LevelOfPct(9))}
\* ... or, for the hysteresis properties, lines for 0, 9, 10, 28 and 100 %.
LevelChunks ==
    {<<>>} \cup {Line(LevelOfPct(p)) : p \in {0, 9, 10, 28, 100}}
\* Chunk sizes _rand_int(test_uart_chunk_min, test_uart_chunk_max) can draw.
ChunkSizes == {12}

TickMs(self) == 1000 \div self.cfg.sample_hz

Begin(self) == [self EXCEPT !.applied = NoApply]

\* ---------------------------------------------------------------- actions
\* One iteration of WaterModule.run: the tick body, then time.sleep.
WM_Tick(chunks) ==
    /\ program = "water_module"
    /\ wm.pc = "running"
    /\ now < MaxTicks * TickMs(wm)
    /\ \E chunk \in chunks, n \in ChunkSizes :
        wm' = [run_tick(Begin(wm), chunk, n) EXCEPT !.last_op = "tick"]
    /\ now' = now + TickMs(wm)
    /\ UNCHANGED <<program, mc, le, dy, disk, ble, sb>>

\* A TEST START command between two ticks.
WM_StartTest ==
    /\ program = "water_module"
    /\ wm.pc = "running"
    /\ wm.test_data_id < MaxTests
    /\ \E pipeline \in OptBool, allow_outputs \in OptBool, n \in ChunkSizes :
        wm' = [start_test(Begin(wm), pipeline, allow_outputs, n)
                  EXCEPT !.last_op = "start_test"]
    /\ UNCHANGED <<program, now, mc, le, dy, disk, ble, sb>>

\* A TEST STOP command between two ticks.
WM_StopTest(chunks) ==
    /\ program = "water_module"
    /\ wm.pc = "running"
    /\ \E chunk \in chunks :
        wm' = [stop_test(Begin(wm), chunk) EXCEPT !.last_op = "stop_test"]
    /\ UNCHANGED <<program, now, mc, le, dy, disk, ble, sb>>

\* KeyboardInterrupt in run(): the finally clause sets the pins safe.
WM_KeyboardInterrupt ==
    /\ program = "water_module"
    /\ wm.pc = "running"
    /\ wm' = [set_pins_safe(Begin(wm)) EXCEPT !.pc = "stopped",
                                              !.last_op = "interrupt"]
    /\ UNCHANGED <<program, now, mc, le, dy, disk, ble, sb>>

\* An error outside the per-tick try (the sleep): except and finally both
\* set the pins safe, then the error propagates.
WM_FatalError ==
    /\ program = "water_module"
    /\ wm.pc = "running"
    /\ wm' = [set_pins_safe(set_pins_safe(Begin(wm)))
                 EXCEPT !.pc = "stopped", !.last_op = "fatal"]
    /\ UNCHANGED <<program, now, mc, le, dy, disk, ble, sb>>

NextWM == WM_Tick(UartChunks) \/ WM_StartTest \/ WM_StopTest(UartChunks)
            \/ WM_KeyboardInterrupt \/ WM_FatalError

\* The objects of the programs that are not the one running.
NoController == [pc |-> "absent"]
NoEstimator == [result |-> "absent"]
NoDriver == [pc |-> "absent"]
NoDisk == [file |-> [kind |-> "absent"]]
NoBle == [sent |-> "absent"]
NoSimpleBLE == [pc |-> "absent"]

InitWM ==
    /\ program = "water_module"
    /\ sb = NoSimpleBLE
    /\ disk = NoDisk
    /\ ble = NoBle
    /\ now = 0
    /\ \E file \in PersistedFiles : wm = WaterModule_init(file)
    /\ mc = NoController
    /\ le = NoEstimator
    /\ dy = NoDriver

\* water_module.py: ticks, test commands, and the two ways run() ends.
SpecWM == InitWM /\ [][NextWM]_vars

\* water_module.py fed with lines for levels across the hysteresis bands,
\* with and without a hysteresis step configured.
LevelFiles ==
    { [sample_hz |-> 1, ema_alpha |-> 100, hysteresis_pct |-> h] :
        h \in {0, 4} }

InitLevels ==
    /\ program = "water_module"
    /\ sb = NoSimpleBLE
    /\ disk = NoDisk
    /\ ble = NoBle
    /\ now = 0
    /\ \E file \in LevelFiles : wm = WaterModule_init(file)
    /\ mc = NoController
    /\ le = NoEstimator
    /\ dy = NoDriver

NextLevels == WM_Tick(LevelChunks)

\* What DYPA02YY.read_mm can return to main.py (0.1 mm): nothing, 100 %,
\* 20 %, 0 %, and a distance outside [min_mm, max_mm].
MainReadings == {None, LevelOfPct(100), LevelOfPct(20), LevelOfPct(0), 2500}

MainTickMs(self) == Max(20, 1000 \div self.cfg.sample_hz)

\* One iteration of main.WaterModule._sense_loop, then asyncio.sleep.
Main_Sense ==
    /\ program = "main"
    /\ mc.pc = "running"
    /\ now < MaxTicks * MainTickMs(mc)
    /\ \E mm \in MainReadings :
        mc' = [sense_step(mc, mm) EXCEPT !.last_op = "sense"]
    /\ now' = now + MainTickMs(mc)
    /\ UNCHANGED <<program, wm, le, dy, disk, ble, sb>>

\* KeyboardInterrupt raised out of mod.run().
Main_KeyboardInterrupt ==
    /\ program = "main"
    /\ mc.pc = "running"
    /\ mc' = [main_interrupted(mc) EXCEPT !.pc = "stopped",
                                          !.last_op = "interrupt"]
    /\ UNCHANGED <<program, now, wm, le, dy, disk, ble, sb>>

\* Any other exception raised out of mod.run().
Main_FatalError ==
    /\ program = "main"
    /\ mc.pc = "running"
    /\ mc' = [main_fatal(mc) EXCEPT !.pc = "stopped", !.last_op = "fatal"]
    /\ UNCHANGED <<program, now, wm, le, dy, disk, ble, sb>>

NextMain == Main_Sense \/ Main_KeyboardInterrupt \/ Main_FatalError

InitMain ==
    /\ program = "main"
    /\ sb = NoSimpleBLE
    /\ disk = NoDisk
    /\ ble = NoBle
    /\ now = 0
    /\ \E file \in MainPersistedFiles : mc = MainWaterModule_init(file)
    /\ wm = NoController
    /\ le = NoEstimator
    /\ dy = NoDriver

\* Both controllers, each running on its own.
SpecControllers == (InitWM \/ InitMain) /\ [][NextWM \/ NextMain]_vars

\* Estimators in every stored state, for percents 0..MaxPct and None.
EstimatorConfigs ==
    { [MAIN_DEFAULT_CONFIG EXCEPT !.hysteresis_pct = h] : h \in {0, 4} }

InitEst ==
    /\ program = "estimator"
    /\ sb = NoSimpleBLE
    /\ disk = NoDisk
    /\ ble = NoBle
    /\ now = 0
    /\ wm = NoController
    /\ mc = NoController
    /\ \E cfg \in EstimatorConfigs, st \in States,
          p \in {None} \cup (0..MaxPct) :
        le = [before |-> [LevelEstimator_init(cfg) EXCEPT !.state = st,
                                                         !.last_pct = p],
              after |-> NoEstimator, result |-> "none"]
    /\ dy = NoDriver

\* A call of LevelEstimator.decide_state.
Est_Decide ==
    /\ program = "estimator"
    /\ le.result = "none"
    /\ le' = [le EXCEPT !.after = decide_state(le.before).self,
                        !.result = decide_state(le.before).result]
    /\ UNCHANGED <<program, now, wm, mc, dy, disk, ble, sb>>

NextEst == Est_Decide

SpecEst == InitEst /\ [][NextEst]_vars

\* The two hysteresis machines: the estimator's and the controller's.
SpecHysteresis == (InitLevels \/ InitEst) /\ [][NextLevels \/ NextEst]_vars

\* ---------------------------------------------------------------- DYPA02YY
\* dypa02yy.py (main.py carries an identical copy of the class).  Bytes are
\* integers 0..255, a buffer is a sequence of bytes, and the distances the
\* driver returns are whole millimetres.
NoMode == "none"
MODE_BIN == "bin"
MODE_ASC == "asc"

DYPA02YY_init == [mode |-> NoMode, last_detect_t |-> 0]

InRange(mm) == 0 < mm /\ mm < 10000

\* (buf[i] << 8) | buf[i+1]
Word(buf, i) == buf[i] * 256 + buf[i + 1]

IsDigitByte(c) == 48 <= c /\ c <= 57

detect_mode(buf) ==
    IF Len(buf) >= 4 /\ buf[1] = 255 /\ InRange(Word(buf, 3))
    THEN MODE_BIN
    ELSE IF \E i \in 1..Len(buf) : IsDigitByte(buf[i])
         THEN MODE_ASC
         ELSE NoMode

\* The binary scan: the first index holding 0xFF whose frame decodes to a
\* distance in range.
RECURSIVE read_bin(_, _)
read_bin(data, i) ==
    IF i > Len(data) - 3 THEN None
    ELSE IF data[i] = 255 /\ InRange(Word(data, i + 2))
         THEN Word(data, i + 2)
         ELSE read_bin(data, i + 1)

\* data.decode(errors="ignore"): bytes that are not valid UTF-8 are dropped
\* from the text; of the bytes modelled that is 0xFF.
Decode(data) == SelectSeq(data, LAMBDA c : c < 128)

\* int(acc) for a run of digit characters.
RECURSIVE IntOf(_)
IntOf(acc) ==
    IF acc = <<>> THEN 0
    ELSE 10 * IntOf(SubSeq(acc, 1, Len(acc) - 1)) + (acc[Len(acc)] - 48)

\* The character loop of the ASCII branch, from character i on, with the
\* loop's variables num and acc.
RECURSIVE asc_loop(_, _, _, _)
asc_loop(s, i, num, acc) ==
    IF i > Len(s)
    THEN IF acc # <<>> THEN IntOf(acc) ELSE num
    ELSE IF IsDigitByte(s[i])
         THEN asc_loop(s, i + 1, num, Append(acc, s[i]))
         ELSE asc_loop(s, i + 1, IF acc # <<>> THEN IntOf(acc) ELSE num, <<>>)

read_asc_unchecked(data) == asc_loop(Decode(data), 1, None, <<>>)

read_asc(data) ==
    IF InRange(asc_loop(Decode(data), 1, None, <<>>))
    THEN asc_loop(Decode(data), 1, None, <<>>)
    ELSE None

relock_always(self, data, t) ==
    IF detect_mode(data) # NoMode
    THEN [self EXCEPT !.mode = detect_mode(data), !.last_detect_t = t]
    ELSE self

\* The detection step of read_mm at time t.
relock(self, data, t) ==
    IF (self.mode = NoMode \/ t - self.last_detect_t > 2000)
       /\ detect_mode(data) # NoMode
    THEN [self EXCEPT !.mode = detect_mode(data), !.last_detect_t = t]
    ELSE self

parse_unchecked(mode, data) ==
    IF mode = MODE_BIN THEN read_bin(data, 1) ELSE read_asc_unchecked(data)

\* The parse step of read_mm under the mode in force.
parse(mode, data) ==
    IF mode = MODE_BIN THEN read_bin(data, 1) ELSE read_asc(data)

\* read_mm at time t with `data` waiting in the UART (at most 32 bytes are
\* taken; the buffers modelled are shorter).
read_mm(self, data, t) ==
    IF Len(data) <= 0
    THEN [self |-> self, result |-> None]
    ELSE [self |-> relock(self, data, t),
          result |-> parse(relock(self, data, t).mode, data)]

\* The bytes fed to the driver: NUL, line feed, the digits '0' and '1', and
\* the binary sentinel 0xFF.
Bytes == {0, 10, 48, 49, 255}

\* Longest buffer of which every content is fed.
MaxBuf == 4
\* Number of read_mm calls explored.
MaxReads == 2

\* Every buffer of at most MaxBuf bytes, and longer ones: "10000", a binary
\* frame behind a leading byte, and a reading followed by "10000".
Buffers ==
    UNION { [1..k -> Bytes] : k \in 0..MaxBuf }
    \cup { <<49, 48, 48, 48, 48>>, <<10, 255, 0, 0, 10>>,
           <<49, 10, 49, 48, 48, 48, 48>> }

\* Time between two reads, ms.
ReadGaps == {2000, 2001}

InitDriver ==
    /\ program = "dypa02yy"
    /\ sb = NoSimpleBLE
    /\ disk = NoDisk
    /\ ble = NoBle
    /\ now = 0
    /\ wm = NoController
    /\ mc = NoController
    /\ le = NoEstimator
    /\ dy = [drv |-> DYPA02YY_init, rx |-> <<>>, reads |-> 0,
             prev_mode |-> NoMode, elapsed |-> 0, result |-> None]

\* The sensor sends bytes into the empty UART receive buffer.
UART_Receive ==
    /\ program = "dypa02yy"
    /\ dy.reads < MaxReads
    /\ dy.rx = <<>>
    /\ \E data \in Buffers \ {<<>>} : dy' = [dy EXCEPT !.rx = data]
    /\ UNCHANGED <<program, now, wm, mc, le, disk, ble, sb>>

\* A call of read_mm; it consumes the receive buffer.  prev_mode and elapsed
\* record the mode before the call and the time since the last detection.
DY_Read ==
    /\ program = "dypa02yy"
    /\ dy.reads < MaxReads
    /\ \E gap \in ReadGaps :
        /\ now' = now + gap
        /\ dy' = [drv |-> read_mm(dy.drv, dy.rx, now + gap).self,
                  rx |-> <<>>,
                  reads |-> dy.reads + 1,
                  prev_mode |-> dy.drv.mode,
                  elapsed |-> now + gap - dy.drv.last_detect_t,
                  result |-> read_mm(dy.drv, dy.rx, now + gap).result]
    /\ UNCHANGED <<program, wm, mc, le, disk, ble, sb>>

NextDriver == UART_Receive \/ DY_Read

SpecDriver == InitDriver /\ [][NextDriver]_vars

\* ----------------------------------------------------- LevelEstimator feed
\* Number of ingest_mm calls explored.
MaxIngest == 5

\* Calibration anchors (cal_empty_mm, cal_full_mm): cleared, the defaults,
\* equal, inverted, and one of the two cleared.
AnchorPairs ==
    { <<None, None>>, <<1900, 500>>, <<500, 500>>, <<500, 1900>>,
      <<None, 500>>, <<1900, None>> }

IngestConfigs ==
    { [MAIN_DEFAULT_CONFIG EXCEPT !.window = w, !.ema_alpha = a,
                                  !.cal_auto_learn = l,
                                  !.cal_empty_mm = c[1],
                                  !.cal_full_mm = c[2]] :
        w \in {1, 4}, a \in {50, 100}, l \in BOOLEAN, c \in AnchorPairs }

\* What ingest_mm is given: no reading, a distance above max_mm, and
\* distances at min_mm, inside the range and at max_mm.
IngestInputs == {None, 2500, 300, 1200, 2200}

InitIngest ==
    /\ program = "ingest"
    /\ sb = NoSimpleBLE
    /\ disk = NoDisk
    /\ ble = NoBle
    /\ now = 0
    /\ wm = NoController
    /\ mc = NoController
    /\ dy = NoDriver
    /\ \E cfg \in IngestConfigs :
        le = [est |-> LevelEstimator_init(cfg), calls |-> 0, mm |-> None,
              accepted |-> <<>>, result |-> <<None, None>>]

\* A call of ingest_mm.  `mm` keeps the argument and `accepted` the in-range
\* arguments so far, oldest first.
Est_Ingest ==
    /\ program = "ingest"
    /\ le.calls < MaxIngest
    /\ \E mm \in IngestInputs :
        le' = [est |-> ingest_mm(le.est, mm),
               calls |-> le.calls + 1,
               mm |-> mm,
               accepted |-> IF mm # None /\ le.est.cfg.min_mm <= mm
                                  /\ mm <= le.est.cfg.max_mm
                            THEN Append(le.accepted, mm) ELSE le.accepted,
               result |-> ingest_returns(le.est, mm)]
    /\ UNCHANGED <<program, now, wm, mc, dy, disk, ble, sb>>

NextIngest == Est_Ingest

SpecIngest == InitIngest /\ [][NextIngest]_vars

\* ------------------------------------------------------------- persistence
\* The file at persist_path: absent, text that json.loads rejects (empty or
\* cut short), or the text of a JSON object.
Missing == [kind |-> "missing"]
Truncated == [kind |-> "truncated"]
\* json.dumps(obj) written out in full; json.loads of it gives obj back.
Json(obj) == [kind |-> "json", obj |-> obj]

Readable(file) == file.kind = "json"

\* An object with no keys.
NoKeys == [k \in {} |-> 0]

\* water_module.load_config on a file: a failed read or parse leaves the
\* defaults to be validated, and nothing is written.
wm_load_config(file) ==
    IF Readable(file) THEN load_config(file.obj) ELSE load_config(NoKeys)

\* How a save can end: the text is written in full; open() raises and the
\* file is untouched; open() has emptied the file and write() raises.
SaveOutcomes == {"written", "open_failed", "write_failed"}

\* main.save_config: the file after the call.  Every exception is caught
\* and printed.
save_config(file, cfg, outcome) ==
    IF outcome = "written" THEN Json(cfg)
    ELSE IF outcome = "open_failed" THEN file
    ELSE Truncated

\* main.load_config on a file: the configuration returned and the file left
\* behind.
main_load_config_file(file, outcome) ==
    IF Readable(file)
    THEN [cfg |-> main_load_config(file.obj), file |-> file]
    ELSE [cfg |-> MAIN_DEFAULT_CONFIG,
          file |-> save_config(file, MAIN_DEFAULT_CONFIG, outcome)]

\* Number of load_config calls explored per module.
MaxLoads == 2

\* Persisted objects: plausibility bounds in and out of order, thresholds in
\* order, equal, inverted, and at zero.
BootObjects ==
    { [min_mm |-> lo, max_mm |-> hi, bottom_pct |-> b, low_pct |-> l] :
        lo \in {300, 2200, 2500}, hi \in {100, 2200},
        b \in {0, 10, 30, 40}, l \in {0, 1, 30} }

BootFiles == {Missing, Truncated} \cup { Json(o) : o \in BootObjects }

NotLoaded == [cfg |-> NoKeys, loads |-> 0]

InitBoot ==
    /\ program = "boot"
    /\ sb = NoSimpleBLE
    /\ now = 0
    /\ wm = NotLoaded
    /\ mc = NotLoaded
    /\ le = NoEstimator
    /\ dy = NoDriver
    /\ ble = NoBle
    /\ \E file \in BootFiles : disk = [file |-> file]

\* water_module.load_config()
WM_LoadConfig ==
    /\ program = "boot"
    /\ wm.loads < MaxLoads
    /\ wm' = [cfg |-> wm_load_config(disk.file), loads |-> wm.loads + 1]
    /\ UNCHANGED <<program, now, mc, le, dy, disk, ble, sb>>

\* main.load_config()
Main_LoadConfig ==
    /\ program = "boot"
    /\ mc.loads < MaxLoads
    /\ \E outcome \in SaveOutcomes :
        /\ mc' = [cfg |-> main_load_config_file(disk.file, outcome).cfg,
                  loads |-> mc.loads + 1]
        /\ disk' = [file |-> main_load_config_file(disk.file, outcome).file]
    /\ UNCHANGED <<program, now, wm, le, dy, ble, sb>>

NextBoot == WM_LoadConfig \/ Main_LoadConfig

SpecBoot == InitBoot /\ [][NextBoot]_vars

\* ------------------------------------------------- main.py BLE calibration
\* self.ble.notify(text) and self.ble.notify(json.dumps(obj))
Text(t) == [kind |-> "text", body |-> t]
JsonText(obj) == [kind |-> "json", body |-> obj]

\* self.cfg[key] = value; the estimator holds the same dict.
set_cfg(self, cfg) == [self EXCEPT !.cfg = cfg, !.est.cfg = cfg]

\* The test CAL EMPTY and CAL FULL make on est.ema before using it.
cal_value_ok(self) ==
    /\ self.est.ema # None
    /\ self.cfg.min_mm <= self.est.ema
    /\ self.est.ema <= self.cfg.max_mm

\* A variant of the mutation that takes est.ema without the test.
cal_cfg_untested(self, cmd) ==
    IF cmd = "CAL EMPTY"
    THEN [self.cfg EXCEPT !.cal_empty_mm = self.est.ema]
    ELSE IF cmd = "CAL FULL"
    THEN [self.cfg EXCEPT !.cal_full_mm = self.est.ema]
    ELSE IF cmd = "CAL CLEAR"
    THEN [self.cfg EXCEPT !.cal_empty_mm = None, !.cal_full_mm = None]
    ELSE self.cfg

\* The configuration a command leaves in memory.
cal_cfg(self, cmd) ==
    IF cmd = "CAL EMPTY" /\ cal_value_ok(self)
    THEN [self.cfg EXCEPT !.cal_empty_mm = self.est.ema]
    ELSE IF cmd = "CAL FULL" /\ cal_value_ok(self)
    THEN [self.cfg EXCEPT !.cal_full_mm = self.est.ema]
    ELSE IF cmd = "CAL CLEAR"
    THEN [self.cfg EXCEPT !.cal_empty_mm = None, !.cal_full_mm = None]
    ELSE self.cfg

\* Whether the command reaches save_config.
cal_saves(self, cmd) ==
    \/ cmd \in {"CAL EMPTY", "CAL FULL"} /\ cal_value_ok(self)
    \/ cmd = "CAL CLEAR"

\* What the command sends back.
cal_reply(self, cmd) ==
    IF cmd = "INFO?"
    THEN JsonText([state |-> self.est.state, pct |-> self.est.last_pct,
                   cal_empty_mm |-> self.cfg.cal_empty_mm,
                   cal_full_mm |-> self.cfg.cal_full_mm,
                   obs_min |-> self.est.obs_min,
                   obs_max |-> self.est.obs_max])
    ELSE IF cmd = "CFG?"
    THEN JsonText([k \in {"sample_hz", "bottom_pct", "low_pct",
                          "hysteresis_pct", "interlock_active", "use_pump_ok",
                          "use_heater_ok", "min_mm", "max_mm", "timeout_ms",
                          "allow_pump_at_low"} |-> self.cfg[k]])
    ELSE IF cmd \in {"CAL EMPTY", "CAL FULL"}
    THEN IF cal_value_ok(self) THEN Text(cmd \o " OK")
         ELSE Text("CAL REJECTED")
    ELSE IF cmd = "CAL CLEAR" THEN Text("CAL CLEARED")
    ELSE Text("ERR CMD")

\* main.WaterModule._on_ble_command with a BLE link up: the controller, the
\* file and the notification after the command.
on_ble_command(self, cmd, file, outcome) ==
    [self |-> set_cfg(self, cal_cfg(self, cmd)),
     file |-> IF cal_saves(self, cmd)
              THEN save_config(file, cal_cfg(self, cmd), outcome)
              ELSE file,
     sent |-> cal_reply(self, cmd)]

\* Number of BLE commands explored.
MaxCmds == 1

Commands == {"INFO?", "CFG?", "CAL EMPTY", "CAL FULL", "CAL CLEAR", "RESET"}

CalFile == [sample_hz |-> 1, window |-> 3, ema_alpha |-> 100,
            boot_grace_s |-> 1]

InitCal ==
    /\ program = "main"
    /\ sb = NoSimpleBLE
    /\ now = 0
    /\ wm = NoController
    /\ le = NoEstimator
    /\ dy = NoDriver
    /\ mc = MainWaterModule_init(main_load_config_file(Json(CalFile),
                                                       "written").cfg)
    /\ disk = [file |-> Json(CalFile)]
    /\ ble = [sent |-> Text(""), count |-> 0]

\* A command arrives over BLE and _on_ble_command handles it.
Main_BleCommand ==
    /\ program = "main"
    /\ mc.pc = "running"
    /\ ble.count < MaxCmds
    /\ \E cmd \in Commands, outcome \in SaveOutcomes :
        /\ cal_saves(mc, cmd) \/ outcome = "written"
        /\ mc' = [on_ble_command(mc, cmd, disk.file, outcome).self
                    EXCEPT !.last_op = cmd]
        /\ disk' = [file |-> on_ble_command(mc, cmd, disk.file, outcome).file]
        /\ ble' = [sent |-> on_ble_command(mc, cmd, disk.file, outcome).sent,
                   count |-> ble.count + 1]
    /\ UNCHANGED <<program, now, wm, le, dy, sb>>

\* Power is lost inside save_config, between open(path, "w"), which empties
\* the file, and the end of the write: the command is never acknowledged.
Main_PowerLossInSave ==
    /\ program = "main"
    /\ mc.pc = "running"
    /\ ble.count < MaxCmds
    /\ \E cmd \in Commands :
        /\ cal_saves(mc, cmd)
        /\ mc' = [set_cfg(mc, cal_cfg(mc, cmd)) EXCEPT !.pc = "off",
                                                       !.last_op = cmd]
    /\ disk' = [file |-> Truncated]
    /\ UNCHANGED <<program, now, wm, le, dy, ble, sb>>

NextCal == Main_Sense \/ Main_BleCommand \/ Main_PowerLossInSave

SpecCal == InitCal /\ [][NextCal]_vars

\* --------------------------------------------------------------- SimpleBLE
\* simple_ble.py.  Text and payloads are sequences of one-character strings;
\* the characters explored are ASCII, so encode() and decode() keep them one
\* for one.  micropython.schedule is a FIFO of callbacks (sched) that run
\* after the handler that scheduled them has returned; schedule() itself is
\* taken to succeed whenever the module offers it.

NoTx == [t |-> None, payload |-> <<>>, conns |-> {}, errored |-> {},
         chunks |-> <<>>]

\* SimpleBLE.__init__; has_schedule and has_timer tell whether the build
\* offers micropython.schedule and machine.Timer.
SimpleBLE_init(send_interval_ms, has_schedule, has_timer) ==
    [ send_interval_ms |-> Max(0, send_interval_ms),
      last_send_ms |-> 0,
      rate_timer |-> None,
      timer_armed |-> 0,
      connections |-> {},
      tx_queue |-> <<>>,
      draining |-> FALSE,
      rx_accum |-> <<>>,
      has_schedule |-> has_schedule,
      has_timer |-> has_timer,
      sched |-> <<>>,
      \* what was observed of the object from outside: the texts given to
      \* on_command, the last transmission, the time of the one before it
      dispatched |-> <<>>,
      last_tx |-> NoTx,
      prev_tx_ms |-> None,
      tx_count |-> 0,
      \* the text received so far, the operations so far and the last one
      received |-> <<>>,
      calls |-> 0,
      last_op |-> "init" ]

\* _now_ms at the time t: time.ticks_ms(), which wraps around.
TICKS_PERIOD == 1073741824
now_ms(t) == t % TICKS_PERIOD

\* line.replace('\r', '')
RemoveCR(line) == SelectSeq(line, LAMBDA c : c # "\r")

\* The while loop of the write branch of _irq: the cmd_txt of every complete
\* line in turn (empty ones included), and what stays in the accumulator.
RECURSIVE frame_lines(_, _)
frame_lines(accum, cmds) ==
    IF ~HasNewline(accum) THEN [cmds |-> cmds, accum |-> accum]
    ELSE frame_lines(SubSeq(accum, NewlineAt(accum) + 1, Len(accum)),
                     Append(cmds,
                            Strip(RemoveCR(SubSeq(accum, 1,
                                                  NewlineAt(accum) - 1)))))

\* The accumulator after  self._rx_accum += raw.decode(...)  and the bound.
rx_append(accum, raw) ==
    IF Len(accum \o raw) > 512
    THEN SubSeq(accum \o raw, Len(accum \o raw) - 511, Len(accum \o raw))
    ELSE accum \o raw

\* A queue entry: the payload; `prio` tells that notify_priority inserted it
\* and `fresh` that it holds the payload enqueued last.
Entry(data, prio) == [data |-> data, prio |-> prio, fresh |-> TRUE]

Stale(queue) == [i \in 1..Len(queue) |-> [queue[i] EXCEPT !.fresh = FALSE]]

\* list.pop(i) for the 1-based position i.
Pop(queue, i) == SubSeq(queue, 1, i - 1) \o SubSeq(queue, i + 1, Len(queue))

\* The loop  while len(self._tx_queue) > self._queue_max: pop(0)
RECURSIVE trim_head(_)
trim_head(queue) ==
    IF Len(queue) > 32 THEN trim_head(Pop(queue, 1)) ELSE queue

\* The loop  while len(...) > self._queue_max: pop(1 if len > 1 else 0)
RECURSIVE trim_second(_)
trim_second(queue) ==
    IF Len(queue) > 32
    THEN trim_second(Pop(queue, IF Len(queue) > 1 THEN 2 ELSE 1))
    ELSE queue

\* notify merging the new text in front of the tail entry's.
enqueue_merged_in_front(queue, data) ==
    IF queue # <<>> /\ Len(queue[Len(queue)].data) + Len(data) <= 240
    THEN trim_head([Stale(queue) EXCEPT ![Len(queue)].data = data \o @,
                                        ![Len(queue)].fresh = TRUE])
    ELSE trim_head(Append(Stale(queue), Entry(data, FALSE)))

\* The queue after notify has coalesced or appended data and trimmed.
enqueue(queue, data) ==
    IF queue # <<>> /\ Len(queue[Len(queue)].data) + Len(data) <= 240
    THEN trim_head([Stale(queue) EXCEPT ![Len(queue)].data = @ \o data,
                                        ![Len(queue)].fresh = TRUE])
    ELSE trim_head(Append(Stale(queue), Entry(data, FALSE)))

\* notify_priority without its loop.
enqueue_priority_untrimmed(queue, data) ==
    <<Entry(data, TRUE)>> \o Stale(queue)

\* The queue after notify_priority has inserted data and trimmed.
enqueue_priority(queue, data) ==
    trim_second(<<Entry(data, TRUE)>> \o Stale(queue))

\* Chunking that sends the whole chunks only.
Chunks_whole_only(payload) ==
    [k \in 1..(Len(payload) \div 18) |->
        SubSeq(payload, 18 * (k - 1) + 1, 18 * k)]

\* payload[i:i+self._chunk_size] for i in range(0, len(payload), 18)
Chunks(payload) ==
    [k \in 1..((Len(payload) + 17) \div 18) |->
        SubSeq(payload, 18 * (k - 1) + 1, Min(Len(payload), 18 * k))]

\* _schedule_drain_after(delay_ms) at time t: a one-shot timer of period
\* max(1, delay_ms), armed at t in place of any timer armed before; nothing
\* without machine.Timer.
schedule_drain_after(self, delay_ms, t) ==
    IF ~self.has_timer THEN self
    ELSE [self EXCEPT !.rate_timer = Max(1, delay_ms), !.timer_armed = t]

\* The finally clause of _drain_once.
drain_finally(self) ==
    IF self.tx_queue # <<>> /\ self.has_schedule
    THEN [self EXCEPT !.sched = Append(@, [kind |-> "drain"])]
    ELSE [self EXCEPT !.draining = FALSE]

\* The payload the drain pops, with the light coalescing of the next one.
drain_takes(queue) ==
    IF Len(queue) > 1 /\ Len(queue[1].data) < 64
       /\ Len(queue[1].data) + Len(queue[2].data) <= 240
    THEN 2 ELSE 1

RECURSIVE Joined(_, _)
Joined(queue, n) ==
    IF n = 0 THEN <<>> ELSE Joined(queue, n - 1) \o queue[n].data

\* The send loop: every connection gets the chunks in order; on connection c
\* gatts_notify raises at chunk errs[c] (0: never), which ends the chunks of
\* c and removes c.
transmit(self, payload, t, errs) ==
    [self EXCEPT
        !.connections = {c \in @ : errs[c] = 0 \/ errs[c] > Len(Chunks(payload))},
        !.last_send_ms = now_ms(t),
        !.prev_tx_ms = self.last_tx.t,
        !.tx_count = @ + 1,
        !.last_tx =
            [t |-> t, payload |-> payload, conns |-> self.connections,
             errored |-> {c \in self.connections :
                            errs[c] # 0 /\ errs[c] <= Len(Chunks(payload))},
             chunks |-> [c \in self.connections |->
                 IF errs[c] = 0 \/ errs[c] > Len(Chunks(payload))
                 THEN Chunks(payload)
                 ELSE SubSeq(Chunks(payload), 1, errs[c] - 1)]]]

\* Whether _drain_once at time t stops at the rate limit.
rate_limited(self, t) ==
    /\ self.send_interval_ms # 0
    /\ self.tx_queue # <<>>
    /\ self.last_send_ms # 0
    /\ now_ms(t) - self.last_send_ms < self.send_interval_ms

\* _drain_once at time t.
drain_once(self, t, errs) ==
    IF rate_limited(self, t)
    THEN schedule_drain_after(
             [self EXCEPT !.draining = FALSE],
             self.send_interval_ms - (now_ms(t) - self.last_send_ms), t)
    ELSE IF self.connections = {}
    THEN drain_finally(
             [self EXCEPT !.tx_queue = IF Len(@) > 1
                                       THEN SubSeq(@, Len(@), Len(@)) ELSE @,
                          !.draining = FALSE])
    ELSE IF self.tx_queue = <<>>
    THEN drain_finally([self EXCEPT !.draining = FALSE])
    ELSE drain_finally(
             transmit([self EXCEPT !.tx_queue =
                           SubSeq(@, drain_takes(@) + 1, Len(@))],
                      Joined(self.tx_queue, drain_takes(self.tx_queue)),
                      t, errs))

\* _schedule_drain
schedule_drain(self, t, errs) ==
    IF self.draining THEN self
    ELSE IF self.has_schedule
    THEN [self EXCEPT !.draining = TRUE,
                      !.sched = Append(@, [kind |-> "drain"])]
    ELSE drain_once([self EXCEPT !.draining = TRUE], t, errs)

\* SimpleBLE.notify(text), text not None
notify(self, data, t, errs) ==
    schedule_drain([self EXCEPT !.tx_queue = enqueue(@, data)], t, errs)

\* SimpleBLE.notify_priority(text), text not None
notify_priority(self, data, t, errs) ==
    schedule_drain([self EXCEPT !.tx_queue = enqueue_priority(@, data)],
                   t, errs)

\* SimpleBLE.on_command as shipped: `pass`, so it returns None.  No caller
\* in water_module.py replaces it.
on_command(cmd) == None

\* What a dispatch of cmd_txt does: on_command(cmd_txt), and notify of the
\* response when there is one.
dispatch(self, cmd_txt, t, errs) ==
    LET response == on_command(cmd_txt)
        s1 == [self EXCEPT !.dispatched =
                   Append(@, [text |-> cmd_txt, answered |-> response # None])]
    IN  IF response # None THEN notify(s1, response, t, errs) ELSE s1

RECURSIVE dispatch_all(_, _, _, _)
dispatch_all(self, cmds, t, errs) ==
    IF cmds = <<>> THEN self
    ELSE dispatch_all(dispatch(self, cmds[1], t, errs), Tail(cmds), t, errs)

\* The callbacks _run_cmd_cb scheduled while the loop ran: one per non-empty
\* line.  Each reads the variable cmd_txt of _irq when it runs, that is,
\* after the loop, when it holds the text of the last line framed.
deferred_callbacks(cmds) ==
    [i \in 1..Len(SelectSeq(cmds, LAMBDA c : c # <<>>)) |->
        [kind |-> "cmd", text |-> cmds[Len(cmds)]]]

\* raw.decode('utf-8', 'ignore'): the bytes that are no text are left out.
InvalidByte == "\\x80"
decode_ignore(raw) == SelectSeq(raw, LAMBDA c : c # InvalidByte)

\* _irq, event 3 (write) on the RX characteristic with value raw.
irq_write(self, raw, t, errs) ==
    IF raw = <<>> THEN self
    ELSE LET f == frame_lines(rx_append(self.rx_accum, decode_ignore(raw)),
                              <<>>)
             s1 == [self EXCEPT !.rx_accum = f.accum,
                                !.received = @ \o decode_ignore(raw)]
         IN  IF self.has_schedule
             THEN [s1 EXCEPT !.sched = @ \o deferred_callbacks(f.cmds)]
             ELSE dispatch_all(s1, SelectSeq(f.cmds, LAMBDA c : c # <<>>),
                               t, errs)

\* _tmr_cb, the callback of the one-shot timer.
timer_callback(self, t, errs) ==
    IF self.has_schedule
    THEN [self EXCEPT !.sched = Append(@, [kind |-> "timer"]),
                      !.rate_timer = None]
    ELSE [schedule_drain(self, t, errs) EXCEPT !.rate_timer = None]

\* The scheduler runs the callback at the head of its queue: _run_cmd_cb,
\* _drain_cb / _drain_cb2, or _run of the timer.
run_scheduled(self, t, errs) ==
    LET cb == self.sched[1]
        s1 == [self EXCEPT !.sched = Tail(@)]
    IN  IF cb.kind = "cmd" THEN dispatch(s1, cb.text, t, errs)
        ELSE IF cb.kind = "drain" THEN drain_once(s1, t, errs)
        ELSE schedule_drain(s1, t, errs)

\* _irq, events 1 (connect) and 2 (disconnect)
irq_connect(self, c) == [self EXCEPT !.connections = @ \cup {c}]
irq_disconnect(self, c) == [self EXCEPT !.connections = @ \ {c}]

\* The environment of a SimpleBLE object: the connections a central can
\* open, the values it writes, the payloads the controller notifies, and the
\* chunk at which gatts_notify raises on each connection (0: never).
MaxWrites == 2
MaxBleOps == 2
Conns == {1, 2}
RxBytes == {"A", "B", "\r", "\n", InvalidByte}
RxWrites ==
    UNION {[1..n -> RxBytes] : n \in 1..3}
ErrAt == {0, 2}
Pattern(n) ==
    [i \in 1..n |-> <<"0", "1", "2", "3", "4", "5", "6">>[(i % 7) + 1]]
Payloads == {Pattern(40), Pattern(240)}
Intervals == {0, 100}

Op(self, name) == [self EXCEPT !.calls = @ + 1, !.last_op = name]

\* A central writes raw to the RX characteristic.
SB_Write ==
    /\ program = "simple_ble"
    /\ sb.calls < MaxWrites
    /\ \E raw \in RxWrites, errs \in [sb.connections -> ErrAt] :
           sb' = Op(irq_write(sb, raw, now, errs), "write")
    /\ UNCHANGED <<program, now, wm, mc, le, dy, disk, ble>>

\* The scheduler runs the callback that was scheduled first.
SB_RunScheduled ==
    /\ program = "simple_ble"
    /\ sb.sched # <<>>
    /\ \E errs \in [sb.connections -> ErrAt] :
           sb' = [run_scheduled(sb, now, errs) EXCEPT !.last_op = "run"]
    /\ UNCHANGED <<program, now, wm, mc, le, dy, disk, ble>>

InitBleRx ==
    /\ program = "simple_ble"
    /\ now \in {1000, 2000}
    /\ \E i \in Intervals, s \in BOOLEAN, c \in {{1}, {1, 2}} :
           sb = [SimpleBLE_init(i, s, TRUE) EXCEPT !.connections = c]
    /\ wm = NoController
    /\ mc = NoController
    /\ le = NoEstimator
    /\ dy = NoDriver
    /\ disk = NoDisk
    /\ ble = NoBle

NextBleRx == SB_Write \/ SB_RunScheduled

SpecBleRx == InitBleRx /\ [][NextBleRx]_vars

\* The controller calls notify / notify_priority.
SB_Notify ==
    /\ program = "simple_ble"
    /\ sb.calls < MaxBleOps
    /\ \E data \in Payloads, errs \in [sb.connections -> ErrAt] :
           sb' = Op(notify(sb, data, now, errs), "notify")
    /\ UNCHANGED <<program, now, wm, mc, le, dy, disk, ble>>

SB_NotifyPriority ==
    /\ program = "simple_ble"
    /\ sb.calls < MaxBleOps
    /\ \E data \in Payloads, errs \in [sb.connections -> ErrAt] :
           sb' = Op(notify_priority(sb, data, now, errs), "notify_priority")
    /\ UNCHANGED <<program, now, wm, mc, le, dy, disk, ble>>

\* The one-shot timer armed by _schedule_drain_after expires.
SB_TimerFires ==
    /\ program = "simple_ble"
    /\ sb.rate_timer # None
    /\ now - sb.timer_armed >= sb.rate_timer
    /\ \E errs \in [sb.connections -> ErrAt] :
           sb' = [timer_callback(sb, now, errs) EXCEPT !.last_op = "timer"]
    /\ UNCHANGED <<program, now, wm, mc, le, dy, disk, ble>>

\* A central connects or disconnects.
SB_Connect ==
    /\ program = "simple_ble"
    /\ sb.calls < MaxBleOps
    /\ \E c \in Conns \ sb.connections : sb' = Op(irq_connect(sb, c), "connect")
    /\ UNCHANGED <<program, now, wm, mc, le, dy, disk, ble>>

SB_Disconnect ==
    /\ program = "simple_ble"
    /\ sb.calls < MaxBleOps
    /\ \E c \in sb.connections : sb' = Op(irq_disconnect(sb, c), "disconnect")
    /\ UNCHANGED <<program, now, wm, mc, le, dy, disk, ble>>

\* Time passes.
SB_Advance ==
    /\ program = "simple_ble"
    /\ sb.calls < MaxBleOps
    /\ now' = now + 50
    /\ sb' = Op(sb, "advance")
    /\ UNCHANGED <<program, wm, mc, le, dy, disk, ble>>

\* A backlog of k entries: notify("n"), then notify_priority("p") k-1 times
\* with no drain step in between.
Prefills == {2, 32}
Backlog(k) ==
    [i \in 1..k |-> [data |-> IF i < k THEN <<"p">> ELSE <<"n">>,
                     prio |-> i < k, fresh |-> i = 1]]

\* The object after construction ("fresh"), or with a backlog that built up
\* while the scheduled drain callback had not run yet ("pending"), or while
\* the rate limit held the drain back, the last send being 50 ms ago
\* ("limited").
InitBleTx ==
    /\ program = "simple_ble"
    /\ now \in {1000, TICKS_PERIOD}
    /\ \E i \in Intervals, s \in BOOLEAN, tm \in BOOLEAN,
          c \in {{}, Conns}, k \in Prefills,
          form \in {"fresh", "pending", "limited"} :
           /\ form = "pending" => s
           /\ form = "limited" => i > 0
           /\ form = "fresh" => k = 2
           /\ sb = IF form = "fresh"
                   THEN [SimpleBLE_init(i, s, tm) EXCEPT !.connections = c]
                   ELSE IF form = "limited"
                   THEN [SimpleBLE_init(i, s, tm) EXCEPT
                            !.connections = c,
                            !.tx_queue = Backlog(k),
                            !.last_send_ms = now_ms(now - 50),
                            !.last_tx = [NoTx EXCEPT !.t = now - 50],
                            !.rate_timer = IF tm THEN 50 ELSE None,
                            !.timer_armed = IF tm THEN now - 50 ELSE 0]
                   ELSE [SimpleBLE_init(i, s, tm) EXCEPT
                            !.connections = c,
                            !.tx_queue = Backlog(k),
                            !.draining = TRUE,
                            !.sched = <<[kind |-> "drain"]>>]
    /\ wm = NoController
    /\ mc = NoController
    /\ le = NoEstimator
    /\ dy = NoDriver
    /\ disk = NoDisk
    /\ ble = NoBle

NextBleTx ==
    \/ SB_Notify
    \/ SB_NotifyPriority
    \/ SB_RunScheduled
    \/ SB_TimerFires
    \/ SB_Connect
    \/ SB_Disconnect
    \/ SB_Advance

SpecBleTx == InitBleTx /\ [][NextBleTx]_vars

\* ------------------------------------------------- end-to-end scenario
\* main.py with cal_full_mm = 50, cal_empty_mm = 190 and bottom_pct = 10 (its
\* defaults), on a sensor that reports 50 mm on every read and, from some
\* read on, 190 mm on every read.  dy is that sensor: what it reports, the
\* reads since it last changed, and the level the controller showed when it
\* changed.
MaxFullReads == 4
MaxEmptyReads == 30

ScenarioFiles ==
    { [ window |-> w, ema_alpha |-> a ] : w \in {3, 5}, a \in {25, 50} }

InitScenario ==
    /\ program = "scenario"
    /\ now = 0
    /\ \E file \in ScenarioFiles : mc = MainWaterModule_init(file)
    /\ dy = [pc |-> "feeding", mm |-> 500, reads |-> 0,
             before |-> [state |-> STATE_FAULT, pct |-> None]]
    /\ wm = NoController
    /\ le = NoEstimator
    /\ disk = NoDisk
    /\ ble = NoBle
    /\ sb = NoSimpleBLE

\* One iteration of _sense_loop on the reading the sensor reports.
Scn_Sense ==
    /\ program = "scenario"
    /\ dy.reads < (IF dy.mm = 500 THEN MaxFullReads ELSE MaxEmptyReads)
    /\ mc' = [sense_step(mc, dy.mm) EXCEPT !.last_op = "sense"]
    /\ dy' = [dy EXCEPT !.reads = @ + 1]
    /\ now' = now + MainTickMs(mc)
    /\ UNCHANGED <<program, wm, le, disk, ble, sb>>

\* The level drops: the sensor reports 190 mm from now on.
Scn_LevelDrops ==
    /\ program = "scenario"
    /\ dy.mm = 500
    /\ dy' = [dy EXCEPT !.mm = 1900, !.reads = 0,
                        !.before = [state |-> mc.est.state,
                                    pct |-> mc.est.last_pct]]
    /\ UNCHANGED <<program, now, wm, mc, le, disk, ble, sb>>

NextScenario == Scn_Sense \/ Scn_LevelDrops

\* The step of Scn_Sense as the sensor sees it: one more read.
Scn_Read ==
    /\ program = "scenario"
    /\ dy.reads < (IF dy.mm = 500 THEN MaxFullReads ELSE MaxEmptyReads)
    /\ dy' = [dy EXCEPT !.reads = @ + 1]

\* The  while True  of _sense_loop never stops iterating: the sensor is read
\* again and again.
SpecScenario ==
    InitScenario /\ [][NextScenario]_vars /\ WF_dy(Scn_Read)

\* ------------------------------------------------- percent computation
\* _update_level_state and _update_level_state_from_level called on
\* controllers whose config.json stores the calibration anchors (0.1 mm;
\* 0 is the falsy anchor), for levels across and beyond the span.
AnchorValues == {0, 500, 1000, 1900}
PercentLevels == {300, 500, 1000, 1900, 2200}

\* The division  / (full_mm - empty_mm)  of the  else  branch (lines 374
\* and 413) raises ZeroDivisionError when the anchors are equal and truthy.
ZeroDivisionError(self, level) ==
    /\ self.cfg.cal_full_mm # 0
    /\ self.cfg.cal_empty_mm # 0
    /\ level # None
    /\ self.cfg.cal_full_mm = self.cfg.cal_empty_mm

\* _update_level_state: the level the percent is computed from
level_for_state(self) ==
    IF self.sensor_valid
    THEN (IF self.ema_level = None THEN self.current_level
          ELSE (self.cfg.ema_alpha * self.current_level
                   + (100 - self.cfg.ema_alpha) * self.ema_level) \div 100)
    ELSE self.current_level

\* What a call of _update_level_state gives its caller: the error raised,
\* or the object and the percent returned.
update_level_state_call(self) ==
    IF ZeroDivisionError(self, level_for_state(self))
    THEN [self |-> self, outcome |-> "raised", pct |-> None]
    ELSE [self |-> update_level_state(self), outcome |-> "returned",
          pct |-> pct_of(self, level_for_state(self))]

\* The same for _update_level_state_from_level(level).
update_level_state_from_level_call(self, level) ==
    IF ~self.sensor_valid /\ ~self.test_active
    THEN [self |-> update_level_state_from_level(self, level),
          outcome |-> "returned", pct |-> 0]
    ELSE IF ZeroDivisionError(self, level)
    THEN [self |-> self, outcome |-> "raised", pct |-> None]
    ELSE [self |-> update_level_state_from_level(self, level),
          outcome |-> "returned", pct |-> pct_of(self, level)]

InitPercent ==
    /\ program = "percent"
    /\ sb = NoSimpleBLE
    /\ disk = NoDisk
    /\ ble = NoBle
    /\ now = 0
    /\ \E full \in AnchorValues, empty \in AnchorValues,
          level \in PercentLevels, valid \in BOOLEAN :
        wm = [self |-> [WaterModule_init([cal_full_mm |-> full,
                                          cal_empty_mm |-> empty])
                           EXCEPT !.current_level = level,
                                  !.sensor_valid = valid],
              outcome |-> "none", pct |-> None, op |-> "none"]
    /\ mc = NoController
    /\ le = NoEstimator
    /\ dy = NoDriver

Pct_UpdateLevelState ==
    /\ program = "percent"
    /\ wm.outcome = "none"
    /\ wm' = [self |-> update_level_state_call(wm.self).self,
              outcome |-> update_level_state_call(wm.self).outcome,
              pct |-> update_level_state_call(wm.self).pct,
              op |-> "update_level_state"]
    /\ UNCHANGED <<program, now, mc, le, dy, disk, ble, sb>>

Pct_UpdateLevelStateFromLevel ==
    /\ program = "percent"
    /\ wm.outcome = "none"
    /\ \E level \in PercentLevels :
        wm' = [self |-> update_level_state_from_level_call(wm.self,
                                                            level).self,
               outcome |-> update_level_state_from_level_call(wm.self,
                                                              level).outcome,
               pct |-> update_level_state_from_level_call(wm.self, level).pct,
               op |-> "update_level_state_from_level"]
    /\ UNCHANGED <<program, now, mc, le, dy, disk, ble, sb>>

NextPercent == Pct_UpdateLevelState \/ Pct_UpdateLevelStateFromLevel

SpecPercent == InitPercent /\ [][NextPercent]_vars

\* ------------------------------------------- WaterModule.run, one tick
\* The body of the per-tick  try  in run(), with the component that raises
\* (if any) as an input: the components before it have acted, the ones after
\* it and the watchdog feed at the end of the  try  are skipped.  _wdt is
\* the WDT object or None; `feeds` counts its feed() calls, `ticks` the
\* iterations of the loop.
RaisePoints == {"none", "check_ready", "read_sensor", "update_level_state",
                "send_status"}
RunChunks == {<<>>, <<"x", "\n">>, Line(LevelOfPct(100))}

run_tick_raising(self, chunk, n, raise_at) ==
    LET s1 == check_ready(self)
        s2 == read_sensor(s1, chunk)
    IN  IF raise_at = "check_ready" THEN self
        ELSE IF raise_at = "read_sensor" THEN s1
        ELSE IF raise_at = "update_level_state" THEN s2
        ELSE IF s2.test_active THEN generate_test_data(s2, n, FALSE)
        ELSE update_level_state(s2)

\* Whether the tick reaches the end of the  try : send_status raises only
\* in a tick that calls it.
tick_completes(self, chunk, n, raise_at) ==
    \/ raise_at = "none"
    \/ /\ raise_at = "send_status"
       /\ LET s3 == run_tick_raising(self, chunk, n, raise_at)
          IN  ~(((~s3.test_active) \/ s3.test_pipeline)
                    /\ (now - s3.last_status_ms) >= 1000)

run_iteration(r, chunk, n, raise_at) ==
    LET done == tick_completes(r.self, chunk, n, raise_at)
    IN  [self |-> [(IF done THEN run_tick(Begin(r.self), chunk, n)
                    ELSE run_tick_raising(Begin(r.self), chunk, n, raise_at))
                      EXCEPT !.last_op = "tick"],
         wdt |-> r.wdt,
         ticks |-> r.ticks + 1,
         feeds |-> IF done /\ r.wdt THEN r.feeds + 1 ELSE r.feeds,
         raised |-> ~done,
         pc |-> "running"]

InitRun ==
    /\ program = "run"
    /\ sb = NoSimpleBLE
    /\ disk = NoDisk
    /\ ble = NoBle
    /\ now = 0
    /\ \E file \in PersistedFiles, wdt \in BOOLEAN :
        wm = [self |-> WaterModule_init(file), wdt |-> wdt, ticks |-> 0,
              feeds |-> 0, raised |-> FALSE, pc |-> "running"]
    /\ mc = NoController
    /\ le = NoEstimator
    /\ dy = NoDriver

\* One iteration of the  while True  loop: the tick, then time.sleep.
Run_Tick ==
    /\ program = "run"
    /\ wm.pc = "running"
    /\ wm.ticks < MaxTicks
    /\ \E chunk \in RunChunks, n \in ChunkSizes, raise_at \in RaisePoints :
        wm' = run_iteration(wm, chunk, n, raise_at)
    /\ now' = now + TickMs(wm.self)
    /\ UNCHANGED <<program, mc, le, dy, disk, ble, sb>>

NextRun == Run_Tick

SpecRun == InitRun /\ [][NextRun]_vars

\* ------------------------------------------------- UART line handling
\* _read_sensor given one complete line per call.  The lines (text before
\* the newline), with min_mm = 30.0 and max_mm = 220.0: unparsable, empty,
\* comment, below and above the window by more than the 10 mm margin,
\* inside the margin, inside the window, and "nan".
SensorLines ==
    { <<"x">>, <<>>, <<"#", "1">>, FormatLevel(100), FormatLevel(2500),
      FormatLevel(250), FormatLevel(1000), <<"n", "a", "n">> }
MaxLines == 4

\* How a line reads to someone who knows the window: a number outside
\* [min_mm - 10, max_mm + 10] is out of range, any other text float()
\* parses is accepted, the rest is malformed.
LineKind(self, line) ==
    LET s == Strip(SelectSeq(line, LAMBDA c : c # "\r"))
        p == ParseFloat(s)
    IN  IF s = <<>> \/ s[1] = "#" \/ ~p.ok THEN "malformed"
        ELSE IF p.v # NaN /\ (p.v < self.cfg.min_mm - 100
                                 \/ p.v > self.cfg.max_mm + 100)
        THEN "out_of_range"
        ELSE "accepted"

InitLines ==
    /\ program = "lines"
    /\ sb = NoSimpleBLE
    /\ disk = NoDisk
    /\ ble = NoBle
    /\ now = 0
    /\ \E file \in PersistedFiles :
        wm = [self |-> WaterModule_init(file), line |-> <<>>, lines |-> 0,
              oor_run |-> 0]
    /\ mc = NoController
    /\ le = NoEstimator
    /\ dy = NoDriver

\* uart.read() returns one line; `oor_run` counts the out-of-range lines
\* since the last accepted one.
Lines_Read ==
    /\ program = "lines"
    /\ wm.lines < MaxLines
    /\ \E line \in SensorLines :
        wm' = [self |-> read_sensor(wm.self, line \o <<"\n">>),
               line |-> line,
               lines |-> wm.lines + 1,
               oor_run |-> CASE LineKind(wm.self, line) = "accepted" -> 0
                             [] LineKind(wm.self, line) = "out_of_range"
                                    -> wm.oor_run + 1
                             [] OTHER -> wm.oor_run]
    /\ UNCHANGED <<program, now, mc, le, dy, disk, ble, sb>>

NextLines == Lines_Read

SpecLines == InitLines /\ [][NextLines]_vars

\* ------------------------------------------------- pipeline test mode
\* water_module.py with no real sensor data: uart.read() never returns
\* anything, a TEST START selects pipeline mode, and _rand_int draws chunk
\* sizes that split a line (4) or leave it whole (12).
PipeChunkSizes == {4, 12}
MaxPipeTicks == 7

Pipe_StartTest ==
    /\ program = "water_module"
    /\ wm.pc = "running"
    /\ wm.test_data_id < MaxTests
    /\ \E n \in PipeChunkSizes :
        wm' = [start_test(Begin(wm), "True", "None", n)
                  EXCEPT !.last_op = "start_test"]
    /\ UNCHANGED <<program, now, mc, le, dy, disk, ble, sb>>

Pipe_Tick ==
    /\ program = "water_module"
    /\ wm.pc = "running"
    /\ now < MaxPipeTicks * TickMs(wm)
    /\ \E n \in PipeChunkSizes :
        wm' = [run_tick(Begin(wm), <<>>, n) EXCEPT !.last_op = "tick"]
    /\ now' = now + TickMs(wm)
    /\ UNCHANGED <<program, mc, le, dy, disk, ble, sb>>

NextPipeline == Pipe_StartTest \/ Pipe_Tick

SpecPipeline == InitWM /\ [][NextPipeline]_vars

\* ------------------------------------------------------------ properties
PinsSafe(self) ==
    self.pin_interlock = 1 /\ self.pin_pump = 1 /\ self.pin_heater = 1

RunsWM == program = "water_module"
RunsMain == program = "main"
RunsEst == program = "estimator"

\* C1: in water_module.py, whenever test_active is true and
\* test_allow_outputs is false, the interlock, pump and heater pins are all
\* at the safe level 1, from the moment start_test returns.
C1_TestModeForcesSafe ==
    (RunsWM /\ wm.test_active /\ ~wm.test_allow_outputs) => PinsSafe(wm)

\* C2: until ready becomes true the interlock, pump and heater pins are at
\* the safe level 1 in every reachable state of water_module.py.
C2_SafeUntilReady ==
    (RunsWM /\ ~wm.ready) => PinsSafe(wm)

\* C2 witness: before ready, _apply_fail_safe_outputs ran on a committed
\* LOW with a valid sensor and allow_pump_at_low set, outside test gating.
C2_Witness ==
    /\ RunsWM /\ ~wm.ready /\ wm.pc = "running"
    /\ wm.applied.ran /\ ~wm.applied.test_gate /\ wm.applied.valid
    /\ wm.applied.state = STATE_LOW /\ wm.cfg.allow_pump_at_low
    /\ PinsSafe(wm)

\* C3: at the end of every tick and after stop_test returns, a current_state
\* of FAULT has the pump, heater and interlock pins at the safe level 1.
C3_FaultIsSafe ==
    (RunsWM /\ wm.last_op \in {"tick", "stop_test"}
        /\ wm.current_state = STATE_FAULT) => PinsSafe(wm)

C7_TimeoutForcesFault ==
    (RunsWM /\ wm.last_op = "tick" /\ wm.test_data_id = 0
        /\ now - wm.last_sensor_time
             >= wm.cfg.timeout_ms + wm.cfg.debounce_ms + 2 * TickMs(wm))
    => (~wm.sensor_valid /\ wm.current_state = STATE_FAULT)

\* C8: from committed FAULT, a constant percent p = bottom - 1 from valid
\* samples across the debounce interval commits BOTTOM as the next state.
C8_FaultCommitsBottom ==
    [][(/\ RunsWM /\ ~wm.test_active /\ ~wm'.test_active
        /\ wm.current_state = STATE_FAULT
        /\ wm.sensor_valid /\ wm'.sensor_valid
        /\ pct_of(wm, wm.ema_level) = wm.cfg.bottom_pct - 1
        /\ pct_of(wm', wm'.ema_level) = wm.cfg.bottom_pct - 1
        /\ wm'.current_state # STATE_FAULT)
       => wm'.current_state = STATE_BOTTOM]_vars

MainPinsSafe(self) ==
    self.interlock = 1 /\ self.pump_ok = 1 /\ self.heater_ok = 1

\* C5: every time outputs are applied, in water_module.py and in main.py,
\* the master interlock drive equals the pump drive, and the heater is never
\* allowed while the pump is not.
C5_InterlockEqualsPump ==
    /\ (RunsWM /\ wm.applied.ran) =>
          /\ wm.pin_interlock = wm.pin_pump
          /\ wm.pin_heater = 0 => wm.pin_pump = 0
    /\ (RunsMain /\ mc.last_op = "sense") =>
          /\ mc.interlock = mc.pump_ok
          /\ mc.heater_ok = 0 => mc.pump_ok = 0

\* C5 as the code has it: in water_module.py the interlock drive equals the
\* pump drive; in main.py the interlock allows exactly when ready and the
\* state is OK or LOW, so wherever the pump is allowed the interlock is too;
\* in both the heater is never allowed while the pump is not.
C5_InterlockPolicy ==
    /\ (RunsWM /\ wm.applied.ran) =>
          /\ wm.pin_interlock = wm.pin_pump
          /\ wm.pin_heater = 0 => wm.pin_pump = 0
    /\ (RunsMain /\ mc.last_op = "sense") =>
          /\ mc.interlock = (IF mc.ready
                                  /\ mc.est.state \in {STATE_OK, STATE_LOW}
                             THEN 0 ELSE 1)
          /\ mc.pump_ok = 0 => mc.interlock = 0
          /\ mc.heater_ok = 0 => mc.pump_ok = 0

\* C5 witness: main.py applied outputs when ready in LOW with
\* allow_pump_at_low off: the interlock allows, the pump does not.
C5_Witness ==
    /\ RunsMain /\ mc.last_op = "sense" /\ mc.ready
    /\ mc.est.state = STATE_LOW /\ ~mc.cfg.allow_pump_at_low
    /\ mc.interlock = 0 /\ mc.pump_ok = 1 /\ mc.heater_ok = 1

\* C6: whenever the control loop has stopped, by an uncaught error or by
\* KeyboardInterrupt, the interlock, pump and heater outputs are at 1.
C6_StoppedIsSafe ==
    /\ (RunsWM /\ wm.pc = "stopped") => PinsSafe(wm)
    /\ (RunsMain /\ mc.pc = "stopped") => MainPinsSafe(mc)

\* The hysteresis band of a committed state, as C9 states it.
InBand(st, p, cfg) ==
    LET low == cfg.low_pct
        bottom == cfg.bottom_pct
        h == cfg.hysteresis_pct
    IN  \/ st = STATE_OK /\ p > low - h
        \/ st = STATE_LOW /\ bottom - h < p /\ p < low + h
        \/ st = STATE_BOTTOM /\ p <= bottom + h

\* The band in which both machines keep BOTTOM for every hysteresis_pct >= 0.
InKeptBand(st, p, cfg) ==
    /\ InBand(st, p, cfg)
    /\ st = STATE_BOTTOM => p < cfg.bottom_pct + 2 * cfg.hysteresis_pct

\* A tick of water_module.py that evaluated a percent from a valid sample.
TickWithPercent ==
    RunsWM /\ wm'.last_op = "tick" /\ wm' # wm
        /\ ~wm'.test_active /\ wm'.sensor_valid

\* A call of decide_state with a percent.
DecideWithPercent ==
    RunsEst /\ le.result = "none" /\ le'.result # "none"
        /\ le.before.last_pct # None

\* C9: a percent within the hysteresis band never changes the committed
\* state (OK: p > low - h; LOW: bottom - h < p < low + h; BOTTOM:
\* p <= bottom + h), for LevelEstimator.decide_state and for the
\* controller's debounced update.
C9_BandKeepsState ==
    [][/\ (TickWithPercent
            /\ InBand(wm.current_state, pct_of(wm', wm'.ema_level), wm.cfg))
          => wm'.current_state = wm.current_state
       /\ (DecideWithPercent
            /\ InBand(le.before.state, le.before.last_pct, le.before.cfg))
          => le'.result = le.before.state]_vars

\* C9 with the BOTTOM band also below bottom + 2h: such a percent never
\* changes the committed state, in decide_state and in the controller.
C9_KeptBandKeepsState ==
    [][/\ (TickWithPercent
            /\ InKeptBand(wm.current_state, pct_of(wm', wm'.ema_level),
                          wm.cfg))
          => wm'.current_state = wm.current_state
       /\ (DecideWithPercent
            /\ InKeptBand(le.before.state, le.before.last_pct,
                          le.before.cfg))
          => le'.result = le.before.state]_vars

\* C9 witness: decide_state kept BOTTOM for a percent at the top of the band
\* (p = bottom + h, h > 0).
C9_Witness ==
    /\ RunsEst /\ le.result = STATE_BOTTOM
    /\ le.before.state = STATE_BOTTOM
    /\ le.before.cfg.hysteresis_pct > 0
    /\ le.before.last_pct
         = le.before.cfg.bottom_pct + le.before.cfg.hysteresis_pct

\* The table C10 states for decide_state; exit(p, t) says whether p is far
\* enough above t to leave BOTTOM.
DecideTable(cur, p, cfg, exit(_, _)) ==
    LET low == cfg.low_pct
        bottom == cfg.bottom_pct
        h == cfg.hysteresis_pct
    IN  IF p = None THEN STATE_FAULT
        ELSE CASE cur = STATE_FAULT ->
                    IF p <= bottom THEN STATE_BOTTOM
                    ELSE IF p <= low THEN STATE_LOW ELSE STATE_OK
               [] cur = STATE_OK ->
                    IF p <= low - h THEN STATE_LOW ELSE STATE_OK
               [] cur = STATE_LOW ->
                    IF p <= bottom - h THEN STATE_BOTTOM
                    ELSE IF p >= low + h THEN STATE_OK ELSE STATE_LOW
               [] cur = STATE_BOTTOM ->
                    IF exit(p, bottom + 2 * h)
                    THEN (IF p <= low - h THEN STATE_LOW ELSE STATE_OK)
                    ELSE STATE_BOTTOM

Past(p, t) == p > t
Reaches(p, t) == p >= t

\* C10: decide_state returns FAULT without a percent; from FAULT, BOTTOM if
\* p <= bottom, else LOW if p <= low, else OK; from OK, LOW if p <= low - h,
\* else OK; from LOW, BOTTOM if p <= bottom - h, OK if p >= low + h, else
\* LOW; from BOTTOM, BOTTOM unless p is past bottom + 2h (p > bottom + 2h),
\* then LOW if p <= low - h, else OK; and it leaves the estimator unchanged.
C10_DecideTablePast ==
    (RunsEst /\ le.result # "none") =>
        /\ le.result = DecideTable(le.before.state, le.before.last_pct,
                                   le.before.cfg, Past)
        /\ le.after = le.before

\* C10 with the BOTTOM exit as coded: BOTTOM unless p >= bottom + 2h.
C10_DecideTableReaches ==
    (RunsEst /\ le.result # "none") =>
        /\ le.result = DecideTable(le.before.state, le.before.last_pct,
                                   le.before.cfg, Reaches)
        /\ le.after = le.before

\* C10 witness: from BOTTOM with p = bottom + 2h (h > 0) decide_state
\* returned LOW and left the estimator as it was.
C10_Witness ==
    /\ RunsEst /\ le.result = STATE_LOW /\ le.after = le.before
    /\ le.before.state = STATE_BOTTOM
    /\ le.before.cfg.hysteresis_pct > 0
    /\ le.before.last_pct
         = le.before.cfg.bottom_pct + 2 * le.before.cfg.hysteresis_pct

\* C11: every change of WaterModule.current_state is a debounced commit: the
\* new state is the one the hysteresis machine had pending, it has been
\* pending for at least debounce_ms, and the commit recorded it; in normal
\* operation, in test mode and in stop_test.
C11_ChangesAreDebouncedCommits ==
    [][(RunsWM /\ wm'.current_state # wm.current_state)
       => /\ wm'.last_committed_state = wm'.current_state
          /\ wm.pending_state = wm'.current_state
          /\ now - wm.pending_since_ms >= wm.cfg.debounce_ms]_vars

RunsDriver == program = "dypa02yy"

\* C12: whatever bytes are waiting and whatever mode was locked before,
\* read_mm returns no reading or a distance strictly between 0 and 10000.
C12_ReadingInRange ==
    (RunsDriver /\ dy.reads > 0) => (dy.result = None \/ InRange(dy.result))

C12_Witness ==
    RunsDriver /\ dy.reads > 1 /\ dy.prev_mode = MODE_BIN /\ dy.result = 10

\* The digit runs of a buffer: maximal stretches of digit bytes, each ended
\* by a non-digit byte or by the end of the buffer.
IsRun(buf, a, b) ==
    /\ a <= b
    /\ \A i \in a..b : IsDigitByte(buf[i])
    /\ (a = 1 \/ ~IsDigitByte(buf[a - 1]))
    /\ (b = Len(buf) \/ ~IsDigitByte(buf[b + 1]))

InRangeRuns(buf) ==
    { r \in (1..Len(buf)) \X (1..Len(buf)) :
        IsRun(buf, r[1], r[2]) /\ InRange(IntOf(SubSeq(buf, r[1], r[2]))) }

LastInRangeRun(buf) ==
    IF InRangeRuns(buf) = {} THEN None
    ELSE LET r == CHOOSE r \in InRangeRuns(buf) :
                      \A q \in InRangeRuns(buf) : q[1] <= r[1]
         IN IntOf(SubSeq(buf, r[1], r[2]))

\* C13: in ASCII mode read_mm returns the value of the last digit run of the
\* buffer whose value is strictly between 0 and 10000, and no reading only
\* when the buffer holds no such run.
C13_LastInRangeRun ==
    [][(RunsDriver /\ dy'.reads = dy.reads + 1 /\ dy.rx # <<>>
        /\ dy'.drv.mode = MODE_ASC)
       => dy'.result = LastInRangeRun(dy.rx)]_vars

\* The mode the lock is to hold after a read of buf made `elapsed` ms after
\* the last detection, with mode `prev` locked before.
LockedMode(prev, elapsed, buf) ==
    IF prev = NoMode \/ elapsed > 2000
    THEN IF Len(buf) >= 4 /\ buf[1] = 255 /\ InRange(buf[3] * 256 + buf[4])
         THEN MODE_BIN
         ELSE IF \E i \in 1..Len(buf) : buf[i] \in 48..57
              THEN MODE_ASC
              ELSE prev
    ELSE prev

\* C14: a read made with the mode unset or more than 2000 ms after the last
\* detection locks binary on a leading valid frame, else ASCII on any digit,
\* else keeps the mode; a read within 2000 ms leaves the mode as it is.
C14_ModeLocking ==
    [][(RunsDriver /\ dy'.reads = dy.reads + 1 /\ dy.rx # <<>>)
       => dy'.drv.mode =
            LockedMode(dy.drv.mode, now' - dy.drv.last_detect_t, dy.rx)]_vars

C14_Witness ==
    /\ RunsDriver
    /\ dy.reads = MaxReads
    /\ dy.prev_mode = MODE_BIN
    /\ dy.elapsed > 2000
    /\ dy.drv.mode = MODE_ASC

C14_WitnessHeld ==
    /\ RunsDriver
    /\ dy.reads > 1
    /\ dy.prev_mode = MODE_BIN
    /\ dy.elapsed = 2000
    /\ dy.drv.mode = MODE_BIN
    /\ dy.result = None

RunsIngest == program = "ingest"

\* The last n elements of a sequence.
LastN(q, n) == SubSeq(q, Len(q) - n + 1, Len(q))

WindowCap(cfg) == IF cfg.window > 3 THEN cfg.window ELSE 3

\* C15: after every ingest_mm call the window holds at most max(3, window)
\* samples, they are the most recent accepted ones in arrival order, and all
\* lie in [min_mm, max_mm]; a call with None or an out-of-range distance
\* returns (None, None) and leaves window, ema, observed anchors and
\* last_pct as they were.
C15_WindowAndRejection ==
    [][(RunsIngest /\ le'.calls = le.calls + 1)
       => /\ Len(le'.est.window) <= WindowCap(le.est.cfg)
          /\ Len(le'.est.window) =
                Min(WindowCap(le.est.cfg), Len(le'.accepted))
          /\ le'.est.window = LastN(le'.accepted, Len(le'.est.window))
          /\ \A i \in 1..Len(le'.est.window) :
                /\ le.est.cfg.min_mm <= le'.est.window[i]
                /\ le'.est.window[i] <= le.est.cfg.max_mm
          /\ (le'.mm = None \/ le'.mm < le.est.cfg.min_mm
                \/ le'.mm > le.est.cfg.max_mm)
             => /\ le'.result = <<None, None>>
                /\ le'.est.window = le.est.window
                /\ le'.est.ema = le.est.ema
                /\ le'.est.obs_min = le.est.obs_min
                /\ le'.est.obs_max = le.est.obs_max
                /\ le'.est.last_pct = le.est.last_pct]_vars

\* A full window has evicted its oldest sample, and the call after that was
\* rejected.
C15_Witness ==
    /\ RunsIngest
    /\ le.est.cfg.window = 1
    /\ Len(le.accepted) > 3
    /\ Len(le.est.window) = 3
    /\ le.mm = 2500
    /\ le.result = <<None, None>>

\* The anchor the mapping is to use: the configured one when present, else
\* the observed one, else the plausibility bound.
Anchor(configured, observed, bound) ==
    IF configured # None THEN configured
    ELSE IF observed # None THEN observed
    ELSE bound

EmptyAnchor(est) == Anchor(est.cfg.cal_empty_mm, est.obs_max, est.cfg.max_mm)
FullAnchor(est) == Anchor(est.cfg.cal_full_mm, est.obs_min, est.cfg.min_mm)

Accepted == le.mm # None /\ le.result # <<None, None>>

\* C16: for an accepted sample the percent returned is
\* 100 * (empty - ema) / max(5 mm, empty - full) clamped to [0, 100], with
\* the anchors taken from the configuration, else from the observed
\* anchors, else from max_mm and min_mm; it lies in [0, 100] whatever the
\* anchors are.
C16_PercentMapping ==
    (RunsIngest /\ le.calls > 0 /\ Accepted)
    => /\ le.result[1] = le.est.ema
       /\ le.result[2] =
            clamp((100 * (EmptyAnchor(le.est) - le.est.ema))
                    \div Max(50, EmptyAnchor(le.est) - FullAnchor(le.est)),
                  0, 100)
       /\ 0 <= le.result[2] /\ le.result[2] <= 100

\* Inverted configured anchors with observed anchors learned, and a percent
\* that the clamp cut.
C16_Witness ==
    /\ RunsIngest
    /\ Accepted
    /\ le.est.cfg.cal_empty_mm = 500
    /\ le.est.cfg.cal_full_mm = 1900
    /\ le.est.obs_min # None
    /\ le.est.ema > 500
    /\ le.result[2] = 0

RunsBoot == program = "boot"

Validated(cfg) == cfg.min_mm <= cfg.max_mm /\ cfg.bottom_pct < cfg.low_pct

\* C17: whatever the persisted file holds, the configuration load_config
\* returns has min_mm <= max_mm and bottom_pct < low_pct, and validating it
\* again changes nothing; for water_module.load_config and main.load_config.
C17_LoadedConfigValid ==
    RunsBoot =>
        /\ wm.loads > 0 => (Validated(wm.cfg) /\ load_config(wm.cfg) = wm.cfg)
        /\ mc.loads > 0 => Validated(mc.cfg)

\* C18: a load that found the file missing or unparsable returns the
\* defaults and leaves them written at the persist path; for
\* water_module.load_config and main.load_config.
C18_DefaultsPersisted ==
    [][(RunsBoot /\ ~Readable(disk.file))
       => /\ wm'.loads = wm.loads + 1
             => /\ wm'.cfg = DEFAULT_CONFIG
                /\ disk'.file = Json(DEFAULT_CONFIG)
          /\ mc'.loads = mc.loads + 1
             => /\ mc'.cfg = MAIN_DEFAULT_CONFIG
                /\ disk'.file = Json(MAIN_DEFAULT_CONFIG)]_vars

RunsCal == program = "main" /\ disk.file.kind # "absent"

\* C19: whenever the file at the persist path changes, it then holds the
\* complete new configuration; at every point of a save it holds the
\* complete previous configuration or the complete new one.
C19_SaveIsAtomic ==
    [][RunsCal => (disk'.file = disk.file \/ disk'.file = Json(mc'.cfg))]_vars

OkAcks == {Text("CAL EMPTY OK"), Text("CAL FULL OK"), Text("CAL CLEARED")}

\* C20: when CAL EMPTY, CAL FULL or CAL CLEAR is acknowledged, the file at
\* the persist path holds the calibration anchors the command left in
\* memory.
C20_AckAfterPersist ==
    [][(RunsCal /\ ble'.count = ble.count + 1 /\ ble'.sent \in OkAcks)
       => /\ Readable(disk'.file)
          /\ "cal_empty_mm" \in DOMAIN disk'.file.obj
          /\ "cal_full_mm" \in DOMAIN disk'.file.obj
          /\ disk'.file.obj.cal_empty_mm = mc'.cfg.cal_empty_mm
          /\ disk'.file.obj.cal_full_mm = mc'.cfg.cal_full_mm]_vars

\* A BLE command was handled in this step.
CommandStep == RunsCal /\ ble'.count = ble.count + 1

\* est.ema is present and within [min_mm, max_mm].
ValidReading ==
    mc.est.ema # None /\ mc.cfg.min_mm <= mc.est.ema
        /\ mc.est.ema <= mc.cfg.max_mm

\* C21: CAL FULL and CAL EMPTY without a valid filtered reading are answered
\* with CAL REJECTED and leave the configuration in memory and the persisted
\* file as they were; with a valid reading CAL FULL sets cal_full_mm, and
\* CAL EMPTY cal_empty_mm, to est.ema and changes no other key.
C21_CalRejectedOrSet ==
    [][(CommandStep /\ mc'.last_op \in {"CAL FULL", "CAL EMPTY"})
       => IF ~ValidReading
          THEN /\ ble'.sent = Text("CAL REJECTED")
               /\ mc'.cfg = mc.cfg
               /\ mc'.est = mc.est
               /\ disk' = disk
          ELSE /\ ble'.sent = Text(mc'.last_op \o " OK")
               /\ mc'.cfg =
                    IF mc'.last_op = "CAL FULL"
                    THEN [mc.cfg EXCEPT !.cal_full_mm = mc.est.ema]
                    ELSE [mc.cfg EXCEPT !.cal_empty_mm = mc.est.ema]
               /\ mc'.est = [mc.est EXCEPT !.cfg = mc'.cfg]]_vars

\* CAL FULL was rejected for want of a reading.
C21_Witness ==
    /\ RunsCal
    /\ mc.last_op = "CAL FULL"
    /\ mc.est.ema = None
    /\ ble.count = 1
    /\ ble.sent = Text("CAL REJECTED")

\* CAL EMPTY was accepted and took the filtered reading.
C21_WitnessSet ==
    /\ RunsCal
    /\ mc.last_op = "CAL EMPTY"
    /\ mc.est.ema # None
    /\ mc.cfg.cal_empty_mm = mc.est.ema
    /\ mc.cfg.cal_empty_mm # MAIN_DEFAULT_CONFIG.cal_empty_mm
    /\ ble.sent = Text("CAL EMPTY OK")

Pins(self) == <<self.pin_pump, self.pin_heater, self.pin_interlock>>

\* C30: when stop_test returns, the pump, heater and interlock pins are at
\* the levels the output policy gives for the current_state, ready and
\* sensor_valid that hold at that moment.
C30_StopTestReevaluates ==
    (RunsWM /\ wm.last_op = "stop_test")
    => Pins(wm) = Pins(apply_fail_safe_outputs(wm))

RunsBle == program = "simple_ble"

\* The complete lines of a text: what precedes each newline.
RECURSIVE CompleteLines(_)
CompleteLines(text) ==
    IF ~HasNewline(text) THEN <<>>
    ELSE <<SubSeq(text, 1, NewlineAt(text) - 1)>>
         \o CompleteLines(SubSeq(text, NewlineAt(text) + 1, Len(text)))

\* The lines on_command is due: the complete lines received, carriage returns
\* removed, the empty ones left out.
DueLines ==
    SelectSeq([i \in 1..Len(CompleteLines(sb.received)) |->
                   RemoveCR(CompleteLines(sb.received)[i])],
              LAMBDA l : l # <<>>)

DispatchedTexts == [i \in 1..Len(sb.dispatched) |-> sb.dispatched[i].text]

PendingCommands == SelectSeq(sb.sched, LAMBDA cb : cb.kind = "cmd")

\* C22: every complete command line outside the command vocabulary gets an
\* explicit error response, sent or queued; no dispatched line is answered
\* with silence.
C22_UnknownCommandAnswered ==
    RunsBle => \A i \in 1..Len(sb.dispatched) : sb.dispatched[i].answered

\* C23: every complete non-empty line (carriage returns removed) is passed to
\* on_command exactly once with its own text, in arrival order, and empty
\* lines are never dispatched: what was dispatched so far is the beginning of
\* the due lines, and all of them once no dispatch is pending.
C23_LinesDispatchedOnceInOrder ==
    RunsBle =>
        /\ Len(DispatchedTexts) <= Len(DueLines)
        /\ DispatchedTexts = SubSeq(DueLines, 1, Len(DispatchedTexts))
        /\ PendingCommands = <<>> => DispatchedTexts = DueLines

\* C24: after every notify or notify_priority call, for any interleaving of
\* enqueues and drain steps, the TX queue holds at most 32 entries.
C24_QueueBounded ==
    RunsBle => Len(sb.tx_queue) <= 32

\* notify_priority on a full queue, no payload having left it yet.
C24_Witness ==
    /\ RunsBle
    /\ sb.last_op = "notify_priority"
    /\ sb.connections # {}
    /\ sb.last_tx = NoTx
    /\ Len(sb.tx_queue) = 32

\* notify appending to a full queue.
C24_WitnessNotify ==
    /\ RunsBle
    /\ sb.last_op = "notify"
    /\ sb.connections # {}
    /\ sb.last_tx = NoTx
    /\ Len(sb.tx_queue) = 32
    /\ sb.tx_queue[32].data = Pattern(240)

PrioCount(queue) == Len(SelectSeq(queue, LAMBDA e : e.prio))

\* A step that is one enqueue and nothing else (the drain is deferred).
EnqueueStep ==
    /\ RunsBle
    /\ sb.has_schedule
    /\ sb'.calls = sb.calls + 1
    /\ sb'.last_op \in {"notify", "notify_priority"}

\* C25: when an enqueue pushes the queue beyond capacity, the entry dropped
\* is the oldest non-priority one: no entry of notify_priority is dropped
\* while an entry of notify is queued.
C25_PriorityKeptOnOverflow ==
    [][EnqueueStep =>
         (PrioCount(sb'.tx_queue)
              < PrioCount(sb.tx_queue)
                + (IF sb'.last_op = "notify_priority" THEN 1 ELSE 0)
          => \A i \in 1..Len(sb'.tx_queue) : sb'.tx_queue[i].prio)]_vars

\* A step that is one _drain_once, run from the scheduler.
DrainStep ==
    /\ RunsBle
    /\ sb.sched # <<>>
    /\ sb.sched[1].kind = "drain"
    /\ sb'.last_op = "run"

\* C26: with zero open connections, after any drain step the backlog holds
\* at most one entry, the most recently enqueued one, for every
\* send_interval_ms and every history.
C26_BacklogTrimmedWithoutConnections ==
    [][(DrainStep /\ sb.connections = {}) =>
         /\ Len(sb'.tx_queue) <= 1
         /\ \A i \in 1..Len(sb'.tx_queue) : sb'.tx_queue[i].fresh]_vars

RECURSIVE Flat(_)
Flat(chunks) == IF chunks = <<>> THEN <<>> ELSE chunks[1] \o Flat(Tail(chunks))

\* C27: to every connection that does not error the payload goes as chunks
\* that are non-empty, at most 18 bytes long, in order and concatenating to
\* the payload; a connection that errors is removed from the active set and
\* the others still get the complete payload.
C27_ChunksCarryPayload ==
    [][(RunsBle /\ sb'.last_tx # sb.last_tx) =>
         /\ \A c \in sb'.last_tx.conns \ sb'.last_tx.errored :
               /\ \A k \in 1..Len(sb'.last_tx.chunks[c]) :
                     Len(sb'.last_tx.chunks[c][k]) \in 1..18
               /\ Flat(sb'.last_tx.chunks[c]) = sb'.last_tx.payload
         /\ sb'.last_tx.errored \cap sb'.connections = {}
         /\ sb'.connections = sb.connections \ sb'.last_tx.errored]_vars

\* A payload of several chunks went out while one connection errored and
\* another did not.
C27_Witness ==
    /\ RunsBle
    /\ sb.last_tx.errored # {}
    /\ sb.last_tx.conns \ sb.last_tx.errored # {}
    /\ Len(sb.last_tx.payload) > 36

\* C28: with send_interval_ms > 0 two successive transmissions are at least
\* send_interval_ms apart.
C28_SendsSpaced ==
    (RunsBle /\ sb.send_interval_ms > 0 /\ sb.prev_tx_ms # None) =>
        sb.last_tx.t - sb.prev_tx_ms >= sb.send_interval_ms

\* C28, second half: a drain step that runs before the interval has elapsed
\* transmits nothing, leaves the queue unchanged and schedules a single
\* later drain for the remaining delay.
C28_EarlyDrainReschedules ==
    [][(DrainStep /\ rate_limited(sb, now)) =>
         /\ sb'.last_tx = sb.last_tx
         /\ sb'.tx_queue = sb.tx_queue
         /\ sb'.rate_timer # None
         /\ sb'.timer_armed = now
         /\ sb'.rate_timer
              = sb.send_interval_ms - (now - sb.last_tx.t)]_vars

RunsScenario == program = "scenario"

Shows(pct, state) ==
    RunsScenario /\ mc.est.last_pct = pct /\ mc.est.state = state

\* C29: with cal_full_mm = 50, cal_empty_mm = 190, bottom_pct = 10, a sensor
\* that reports 50 mm continuously brings the percent to 100 and the state
\* to OK; once it reports 190 mm continuously, the percent goes to 0 and the
\* state to BOTTOM, where it stays.
C29_EndToEnd ==
    /\ <>[](RunsScenario /\ dy.mm = 500) => <>[]Shows(100, STATE_OK)
    /\ <>[](RunsScenario /\ dy.mm = 1900) => <>[]Shows(0, STATE_BOTTOM)

\* The level dropped from a committed OK at 100 percent and the controller
\* now shows BOTTOM at 0 percent.
C29_Witness ==
    /\ Shows(0, STATE_BOTTOM)
    /\ dy.mm = 1900
    /\ dy.before = [state |-> STATE_OK, pct |-> 100]

\* C31: the write-event handler never invokes on_command itself; command
\* handling is always left to a scheduled callback that runs after the
\* handler has returned: a write step dispatches nothing.
C31_WriteNeverDispatches ==
    [][(RunsBle /\ sb'.last_op = "write" /\ sb'.calls = sb.calls + 1)
       => sb'.dispatched = sb.dispatched]_vars

DrainsPending(self) == Len(SelectSeq(self.sched, LAMBDA cb : cb.kind = "drain"))

\* C32: at most one drain job is pending at any time, and _draining is true
\* exactly while a drain is scheduled.
C32_SingleDrain ==
    RunsBle =>
        /\ DrainsPending(sb) <= 1
        /\ sb.draining <=> DrainsPending(sb) = 1

\* C33: with no open connection the drain does not reschedule itself while
\* the single retained entry stays in the queue: a drain step on a backlog
\* already cut to one entry leaves no drain scheduled and _draining false.
C33_DrainStopsWithoutConnections ==
    [][(DrainStep /\ sb.connections = {} /\ Len(sb.tx_queue) <= 1)
       => DrainsPending(sb') = 0 /\ ~sb'.draining]_vars

\* C38: with a connection open and nothing more enqueued, every queued
\* payload is eventually transmitted: when, after a transmission, no
\* callback is scheduled and no timer is armed, so that nothing more will
\* run, the queue is empty and _draining is false.
C38_QuiescentMeansDrained ==
    (RunsBle /\ sb.connections # {} /\ sb.tx_count > 0
        /\ sb.sched = <<>> /\ sb.rate_timer = None)
        => sb.tx_queue = <<>> /\ ~sb.draining

RECURSIVE QueuedBytes(_)
QueuedBytes(queue) ==
    IF queue = <<>> THEN <<>> ELSE queue[1].data \o QueuedBytes(Tail(queue))

\* What a step transmitted.
Transmitted ==
    IF sb'.tx_count # sb.tx_count THEN sb'.last_tx.payload ELSE <<>>

\* A step with a connection open, no overflow and no send error.
StreamStep ==
    /\ RunsBle
    /\ sb' # sb
    /\ sb.connections # {}
    /\ sb'.connections = sb.connections
    /\ Len(sb.tx_queue) < 32
    /\ sb'.tx_count <= sb.tx_count + 1

\* C39: with a connection open and no overflow, coalescing in notify and in
\* the drain step never reorders, duplicates or loses bytes: what a step
\* transmits followed by what it leaves queued is what was queued followed
\* by the text of notify, or preceded by the text of notify_priority.
C39_StreamPreserved ==
    [][StreamStep =>
         IF sb'.last_op = "notify"
         THEN \E data \in Payloads :
                  Transmitted \o QueuedBytes(sb'.tx_queue)
                      = QueuedBytes(sb.tx_queue) \o data
         ELSE IF sb'.last_op = "notify_priority"
         THEN \E data \in Payloads :
                  Transmitted \o QueuedBytes(sb'.tx_queue)
                      = data \o QueuedBytes(sb.tx_queue)
         ELSE Transmitted \o QueuedBytes(sb'.tx_queue)
                  = QueuedBytes(sb.tx_queue)]_vars

\* A text coalesced by notify into the tail entry went out in one payload
\* with the entry before it.
C39_Witness ==
    /\ RunsBle
    /\ sb.connections # {}
    /\ sb.last_tx.errored = {}
    /\ sb.last_tx.payload = <<"p", "n">> \o Pattern(40)

\* C40: _update_level_state and _update_level_state_from_level complete
\* without error and return a percent within [0, 100], whatever calibration
\* anchors the configuration stores and whatever the level.
C40_PercentAlwaysComputed ==
    (program = "percent" /\ wm.outcome # "none")
        => /\ wm.outcome = "returned"
           /\ 0 <= wm.pct /\ wm.pct <= 100

\* C35: an error raised by a component inside a tick does not end the loop,
\* and the watchdog, when enabled, is fed once in every tick, the ticks in
\* which a component raised included.
C35_FedEveryTick ==
    program = "run"
        => /\ wm.pc = "running"
           /\ wm.wdt => wm.feeds = wm.ticks

LineStep == program = "lines" /\ wm'.lines = wm.lines + 1

\* C36, first part: out-of-range readings clear sensor_valid only once 3
\* out-of-range lines have come with no accepted line in between.
C36_InvalidAfterThree ==
    [][(LineStep /\ wm.self.sensor_valid /\ ~wm'.self.sensor_valid)
          => wm'.oor_run >= 3]_vars

\* C36, second part: an accepted line sets sensor_valid, clears the failure
\* count and stores a level within [min_mm, max_mm].
C36_AcceptedLineStored ==
    [][(LineStep /\ LineKind(wm.self, wm'.line) = "accepted")
          => /\ wm'.self.sensor_valid
             /\ wm'.self.sensor_fail_count = 0
             /\ wm.self.cfg.min_mm <= wm'.self.current_level
             /\ wm'.self.current_level <= wm.self.cfg.max_mm]_vars

\* C36, third part: one out-of-range line, or a malformed line, leaves
\* sensor_valid and current_level as they were.
C36_SingleGlitchIgnored ==
    [][(LineStep /\ (LineKind(wm.self, wm'.line) = "malformed"
                       \/ (LineKind(wm.self, wm'.line) = "out_of_range"
                             /\ wm.oor_run = 0)))
          => /\ wm'.self.sensor_valid = wm.self.sensor_valid
             /\ wm'.self.current_level = wm.self.current_level]_vars

\* C36: the three parts together.
C36_GlitchFilter ==
    /\ C36_InvalidAfterThree
    /\ C36_AcceptedLineStored
    /\ C36_SingleGlitchIgnored

\* The controller in the estimator's situation: same thresholds and current
\* state, sensor valid, no test mode.
ControllerLike(est) ==
    [cfg |-> est.cfg, current_state |-> est.state, sensor_valid |-> TRUE,
     test_active |-> FALSE]

\* C34: for a current state of OK or LOW, _decide_state_with_hysteresis
\* (sensor valid, no test mode) and LevelEstimator.decide_state decide the
\* same next state for every percent.
C34_SameDecisionInOkAndLow ==
    (program = "estimator" /\ le.result # "none"
         /\ le.before.state \in {STATE_OK, STATE_LOW}
         /\ le.before.last_pct # None)
        => le.result = decide_state_with_hysteresis(
                           ControllerLike(le.before), le.before.last_pct,
                           le.before.cfg.hysteresis_pct)

InPipelineTest(self) ==
    self.test_active /\ self.test_pipeline /\ self.test_data_active

EndsWith(text, tail) ==
    /\ Len(text) >= Len(tail)
    /\ SubSeq(text, Len(text) - Len(tail) + 1, Len(text)) = tail

\* the buffer a _read_sensor call works on after taking the next chunk
Injected(self) == self.uart_buf \o Head(self.test_inject_queue)

====
